---- MODULE Spec2Model ----
(***************************************************************************)
(* The report exporter of App.tsx: wrapText, escapePdfText and buildPdf,   *)
(* toCsv, the flatteners buildReportLines and buildReportCsvRows, the two  *)
(* export handlers, and sendPrompt, which builds the report they export.   *)
(*                                                                         *)
(* A JavaScript string is modelled as the sequence of its UTF-16 code      *)
(* units, each code unit a TLA+ string naming one character; "" is <<>>.   *)
(* The code units "U+00E9" (e acute) and "U+2022" (bullet) stand for       *)
(* characters whose UTF-8 encoding is 2 and 3 bytes long.  A byte buffer   *)
(* is a sequence of bytes; an ASCII byte is named by its character, the    *)
(* other bytes by their hexadecimal value ("0xC3").                        *)
(***************************************************************************)
EXTENDS Integers, Sequences, FiniteSets, TLC

VARIABLES
  lines,         \* the argument of buildPdf: the ReportLine sequence
  geometry,      \* the layout constants of buildPdf (lines 527-531)
  pc,            \* position in buildPdf
  wrappedLines,  \* const wrappedLines
  index,         \* the loop variable of the pagination loop
  pages,         \* const pages
  objects,       \* const objects
  offsets,       \* const offsets
  offset,        \* let offset
  xrefStart,     \* const xrefStart
  blob,          \* the bytes of the returned Blob
  rows,          \* handleDownloadCsv: the ReportRow sequence handed to toCsv
  csv,           \* handleDownloadCsv: const csv
  download,      \* the file last handed to the browser by downloadBlob
  thrown,        \* an export handler has ended by throwing
  messages,      \* useState: the chat messages
  input,         \* useState: the text of the prompt field
  sheets,        \* useState: the spreadsheets
  apiKey,        \* useState: the provider key
  isSending,     \* useState
  apiStatus,     \* useState
  activeSheetId, \* useState
  reportSummary, \* useState
  reportHighlights, \* useState
  reportMetrics, \* useState
  analysisLayer, \* useState
  aiActions,     \* useState
  chartData,     \* useState
  scraperStatus, \* useState
  pending        \* the calls of sendPrompt that await the provider, with what they captured

\* the state of the component
appVars == <<messages, input, sheets, apiKey, isSending, apiStatus, activeSheetId, reportSummary,
             reportHighlights, reportMetrics, analysisLayer, aiActions, chartData, scraperStatus,
             pending>>

\* the locals of buildPdf
pdfVars == <<lines, geometry, wrappedLines, index, pages, objects, offsets, offset, xrefStart, blob>>

\* the variables no step of buildPdf touches
otherVars == <<rows, csv, download, thrown, appVars>>

vars == <<pc, pdfVars, otherVars>>

----------------------------------------------------------------------------
(* Bounds of the model. *)

\* longest ReportLine sequence handed to buildPdf
MaxLines == 2
\* longest text handed to wrapText on its own
MaxTextLen == 5
\* largest wrap width tried for wrapText on its own
MaxWidth == 3
\* iterations of the pagination loop followed when it cannot terminate
MaxLoop == 3

----------------------------------------------------------------------------
(* Strings. *)

StringsUpTo(alphabet, n) == UNION {[1..k -> alphabet] : k \in 0..n}

Max(S) == CHOOSE x \in S : \A y \in S : x >= y

Min(S) == CHOOSE x \in S : \A y \in S : x <= y

\* String.prototype.split with a one-character separator
RECURSIVE split(_, _)
split(text, sep) ==
  IF \A i \in 1..Len(text) : text[i] # sep
  THEN <<text>>
  ELSE LET i == Min({j \in 1..Len(text) : text[j] = sep})
       IN  <<SubSeq(text, 1, i - 1)>> \o split(SubSeq(text, i + 1, Len(text)), sep)

\* the concatenation of a sequence of sequences (flatMap's flattening, Blob's parts),
\* halving the sequence to keep the recursion shallow
RECURSIVE concat(_)
concat(seqs) ==
  IF Len(seqs) = 0 THEN <<>>
  ELSE IF Len(seqs) = 1 THEN seqs[1]
  ELSE LET half == Len(seqs) \div 2
       IN  concat(SubSeq(seqs, 1, half)) \o concat(SubSeq(seqs, half + 1, Len(seqs)))

\* Array.prototype.join
join(strs, sep) ==
  concat([k \in 1..Len(strs) |-> IF k = 1 THEN strs[k] ELSE sep \o strs[k]])

\* String.prototype.replace(/c/g, replacement) for a one-character pattern c
replaceAll(text, c, replacement) ==
  concat([k \in 1..Len(text) |-> IF text[k] = c THEN replacement ELSE <<text[k]>>])

Digit == <<"0", "1", "2", "3", "4", "5", "6", "7", "8", "9">>

\* the decimal text of an integer, as `${n}` and Number.prototype.toString give it
RECURSIVE toString(_)
toString(n) ==
  IF n < 0 THEN <<"-">> \o toString(0 - n)
  ELSE IF n < 10 THEN <<Digit[n + 1]>>
  ELSE toString(n \div 10) \o <<Digit[(n % 10) + 1]>>

\* String.prototype.padStart
RECURSIVE padStart(_, _, _)
padStart(text, targetLength, padChar) ==
  IF Len(text) >= targetLength THEN text
  ELSE padStart(<<padChar>> \o text, targetLength, padChar)

\* slice leaving out the last element of the range
slice_dropsLast(arr, start, end) ==
  LET len  == Len(arr)
      from == IF start > len THEN len ELSE start
      to   == IF end > len THEN len ELSE end
  IN  SubSeq(arr, from + 1, to - 1)

\* slice taking the element at index end as well
slice_inclusiveEnd(arr, start, end) ==
  LET len  == Len(arr)
      from == IF start > len THEN len ELSE start
      to   == IF end + 1 > len THEN len ELSE end + 1
  IN  SubSeq(arr, from + 1, to)

\* Array.prototype.slice(start, end) on an array
slice(arr, start, end) ==
  LET len  == Len(arr)
      from == IF start < 0 THEN (IF len + start < 0 THEN 0 ELSE len + start)
              ELSE (IF start > len THEN len ELSE start)
      to   == IF end < 0 THEN (IF len + end < 0 THEN 0 ELSE len + end)
              ELSE (IF end > len THEN len ELSE end)
  IN  SubSeq(arr, from + 1, to)

\* the UTF-8 bytes of one code unit, as TextEncoder and the Blob constructor encode it
utf8(c) ==
  CASE c = "U+00E9" -> <<"0xC3", "0xA9">>
    [] c = "U+2022" -> <<"0xE2", "0x80", "0xA2">>
    [] c = "U+00B7" -> <<"0xC2", "0xB7">>
    [] OTHER        -> <<c>>

\* TextEncoder.prototype.encode
encode(text) == concat([k \in 1..Len(text) |-> utf8(text[k])])

----------------------------------------------------------------------------
(* wrapText *)

\* wrapWord measuring the word where the code measures the candidate line
wrapWord_measuresWord(acc, word, maxLength) ==
  LET candidate == IF acc.currentLine # <<>>
                   THEN acc.currentLine \o <<" ">> \o word
                   ELSE word
  IN  IF Len(word) > maxLength
      THEN [lines       |-> IF acc.currentLine # <<>>
                            THEN Append(acc.lines, acc.currentLine)
                            ELSE acc.lines,
            currentLine |-> word]
      ELSE [lines |-> acc.lines, currentLine |-> candidate]

\* wrapWord starting the next sub-line without pushing the current one
wrapWord_dropsCurrent(acc, word, maxLength) ==
  LET candidate == IF acc.currentLine # <<>>
                   THEN acc.currentLine \o <<" ">> \o word
                   ELSE word
  IN  IF Len(candidate) > maxLength
      THEN [lines |-> acc.lines, currentLine |-> word]
      ELSE [lines |-> acc.lines, currentLine |-> candidate]

\* wrapWord starting a new sub-line as soon as the candidate reaches the width
wrapWord_strictWidth(acc, word, maxLength) ==
  LET candidate == IF acc.currentLine # <<>>
                   THEN acc.currentLine \o <<" ">> \o word
                   ELSE word
  IN  IF Len(candidate) >= maxLength
      THEN [lines       |-> IF acc.currentLine # <<>>
                            THEN Append(acc.lines, acc.currentLine)
                            ELSE acc.lines,
            currentLine |-> word]
      ELSE [lines |-> acc.lines, currentLine |-> candidate]

\* the callback of words.forEach: one word folded into {lines, currentLine}
wrapWord(acc, word, maxLength) ==
  LET candidate == IF acc.currentLine # <<>>
                   THEN acc.currentLine \o <<" ">> \o word
                   ELSE word
  IN  IF Len(candidate) > maxLength
      THEN [lines       |-> IF acc.currentLine # <<>>
                            THEN Append(acc.lines, acc.currentLine)
                            ELSE acc.lines,
            currentLine |-> word]
      ELSE [lines |-> acc.lines, currentLine |-> candidate]

RECURSIVE wrapWords(_, _, _)
wrapWords(acc, words, maxLength) ==
  IF words = <<>> THEN acc
  ELSE wrapWords(wrapWord(acc, Head(words), maxLength), Tail(words), maxLength)

wrapText(text, maxLength) ==
  IF text = <<>>
  THEN << <<>> >>
  ELSE LET r == wrapWords([lines |-> <<>>, currentLine |-> <<>>],
                          split(text, " "), maxLength)
       IN  IF r.currentLine # <<>> THEN Append(r.lines, r.currentLine) ELSE r.lines

----------------------------------------------------------------------------
(* buildPdf *)

\* the layout constants buildPdf ships with
ShippedGeometry ==
  [lineHeight |-> 16, fontSize |-> 12, margin |-> 72, pageHeight |-> 792,
   maxLineLength |-> 90]

\* maxLinesPerPage rounded up, Math.ceil for Math.floor
maxLinesPerPage_roundsUp(g) ==
  (g.pageHeight - g.margin * 2 + g.lineHeight - 1) \div g.lineHeight

\* const maxLinesPerPage
maxLinesPerPage(g) == (g.pageHeight - g.margin * 2) \div g.lineHeight

\* lines.flatMap((line) => wrapText(line, maxLineLength))
wrapLines(lns, g) == concat([i \in 1..Len(lns) |-> wrapText(lns[i], g.maxLineLength)])

\* escapePdfText escaping the parentheses before the backslashes
escapePdfText_parensFirst(text) ==
  replaceAll(replaceAll(replaceAll(text, "(", <<"\\", "(">>), ")", <<"\\", ")">>), "\\", <<"\\", "\\">>)

\* escapePdfText leaving the backslashes as they are
escapePdfText_keepsBackslashes(text) ==
  replaceAll(replaceAll(text, "(", <<"\\", "(">>), ")", <<"\\", ")">>)

escapePdfText(text) ==
  replaceAll(replaceAll(replaceAll(text, "\\", <<"\\", "\\">>), "(", <<"\\", "(">>), ")", <<"\\", ")">>)

\* the length in UTF-16 code units (text.length) where the code takes the byte length
byteLength_countsChars(text) == Len(text)

byteLength(text) == Len(encode(text))

pageObjectsStart == 3

\* the font numbered one past the last object
fontObjectNumber_offByOne(pgs) == pageObjectsStart + Len(pgs) * 2 + 1

fontObjectNumber(pgs) == pageObjectsStart + Len(pgs) * 2

pageObjectNumber(i) == pageObjectsStart + i * 2

contentObjectNumber(i) == pageObjectNumber(i) + 1

\* pageKids numbering the pages one apart, without the content stream between them
pageKids_everyObject(pgs) ==
  join([k \in 1..Len(pgs) |-> toString(pageObjectsStart + (k - 1)) \o <<" ", "0", " ", "R">>],
       <<" ">>)

\* const pageKids, i the 0-based page index
pageKids(pgs) ==
  join([k \in 1..Len(pgs) |-> toString(pageObjectsStart + (k - 1) * 2) \o <<" ", "0", " ", "R">>],
       <<" ">>)

\* "1 0 obj\n<< /Type /Catalog /Pages 2 0 R >>\nendobj\n"
catalogObject == <<"1", " ", "0", " ", "o", "b", "j", "\n", "<", "<", " ", "/", "T", "y", "p", "e", " ", "/", "C", "a", "t", "a", "l", "o", "g", " ", "/", "P", "a", "g", "e", "s", " ", "2", " ", "0", " ", "R", " ", ">", ">", "\n", "e", "n", "d", "o", "b", "j", "\n">>

\* `2 0 obj\n<< /Type /Pages /Kids [${pageKids}] /Count ${pages.length} >>\nendobj\n`
pagesObject(pgs) ==
  <<"2", " ", "0", " ", "o", "b", "j", "\n", "<", "<", " ", "/", "T", "y", "p", "e", " ", "/", "P", "a", "g", "e", "s", " ", "/", "K", "i", "d", "s", " ", "[">> \o pageKids(pgs) \o <<"]", " ", "/", "C", "o", "u", "n", "t", " ">>
  \o toString(Len(pgs)) \o <<" ", ">", ">", "\n", "e", "n", "d", "o", "b", "j", "\n">>

\* `BT /F1 ${fontSize} Tf ${margin} ${y} Td (${escapedLine}) Tj ET`
contentLine(line, lineIndex, g) ==
  LET escapedLine == escapePdfText(line)
      y == g.pageHeight - g.margin - lineIndex * g.lineHeight
  IN  <<"B", "T", " ", "/", "F", "1", " ">> \o toString(g.fontSize) \o <<" ", "T", "f", " ">> \o toString(g.margin) \o <<" ">>
      \o toString(y) \o <<" ", "T", "d", " ", "(">> \o escapedLine \o <<")", " ", "T", "j", " ", "E", "T">>

\* content counting the lines of a page from 1
content_countsFromOne(pageLines, g) ==
  join([j \in 1..Len(pageLines) |-> contentLine(pageLines[j], j, g)], <<"\n">>)

\* const content: contentLines.join("\n")
content(pageLines, g) ==
  join([j \in 1..Len(pageLines) |-> contentLine(pageLines[j], j - 1, g)], <<"\n">>)

\* the page object of the page with 0-based index i
pageObject(i, pgs) ==
  toString(pageObjectNumber(i))
  \o <<" ", "0", " ", "o", "b", "j", "\n", "<", "<", " ", "/", "T", "y", "p", "e", " ", "/", "P", "a", "g", "e", " ", "/", "P", "a", "r", "e", "n", "t", " ", "2", " ", "0", " ", "R", " ", "/", "M", "e", "d", "i", "a", "B", "o", "x", " ", "[", "0", " ", "0", " ", "6", "1", "2", " ", "7", "9", "2", "]", " ", "/", "C", "o", "n", "t", "e", "n", "t", "s", " ">>
  \o toString(contentObjectNumber(i)) \o <<" ", "0", " ", "R", " ", "/", "R", "e", "s", "o", "u", "r", "c", "e", "s", " ", "<", "<", " ", "/", "F", "o", "n", "t", " ", "<", "<", " ", "/", "F", "1", " ">>
  \o toString(fontObjectNumber(pgs)) \o <<" ", "0", " ", "R", " ", ">", ">", " ", ">", ">", " ", ">", ">", "\n", "e", "n", "d", "o", "b", "j", "\n">>

\* the content stream object declaring content.length, the count of code units
contentObject_lengthInCodeUnits(i, pgs, g) ==
  toString(contentObjectNumber(i)) \o <<" ", "0", " ", "o", "b", "j", "\n", "<", "<", " ", "/", "L", "e", "n", "g", "t", "h", " ">>
  \o toString(Len(content(pgs[i + 1], g))) \o <<" ", ">", ">", "\n", "s", "t", "r", "e", "a", "m", "\n">>
  \o content(pgs[i + 1], g) \o <<"\n", "e", "n", "d", "s", "t", "r", "e", "a", "m", "\n", "e", "n", "d", "o", "b", "j", "\n">>

\* the content stream object of the page with 0-based index i
contentObject(i, pgs, g) ==
  toString(contentObjectNumber(i)) \o <<" ", "0", " ", "o", "b", "j", "\n", "<", "<", " ", "/", "L", "e", "n", "g", "t", "h", " ">>
  \o toString(byteLength(content(pgs[i + 1], g))) \o <<" ", ">", ">", "\n", "s", "t", "r", "e", "a", "m", "\n">>
  \o content(pgs[i + 1], g) \o <<"\n", "e", "n", "d", "s", "t", "r", "e", "a", "m", "\n", "e", "n", "d", "o", "b", "j", "\n">>

\* `${fontObjectNumber} 0 obj\n<< /Type /Font /Subtype /Type1 /BaseFont /Helvetica >>\nendobj\n`
fontObject(pgs) ==
  toString(fontObjectNumber(pgs))
  \o <<" ", "0", " ", "o", "b", "j", "\n", "<", "<", " ", "/", "T", "y", "p", "e", " ", "/", "F", "o", "n", "t", " ", "/", "S", "u", "b", "t", "y", "p", "e", " ", "/", "T", "y", "p", "e", "1", " ", "/", "B", "a", "s", "e", "F", "o", "n", "t", " ", "/", "H", "e", "l", "v", "e", "t", "i", "c", "a", " ", ">", ">", "\n", "e", "n", "d", "o", "b", "j", "\n">>

\* the font object pushed before the page objects instead of after them
buildObjects_fontBeforePages(pgs, g) ==
  <<catalogObject, pagesObject(pgs), fontObject(pgs)>>
  \o concat([k \in 1..Len(pgs) |-> <<pageObject(k - 1, pgs), contentObject(k - 1, pgs, g)>>])

\* const objects, after the last push
buildObjects(pgs, g) ==
  <<catalogObject, pagesObject(pgs)>>
  \o concat([k \in 1..Len(pgs) |-> <<pageObject(k - 1, pgs), contentObject(k - 1, pgs, g)>>])
  \o <<fontObject(pgs)>>

header == <<"%", "P", "D", "F", "-", "1", ".", "4", "\n">>

\* `${value.toString().padStart(10, "0")} 00000 n \n`
xrefEntry(value) == padStart(toString(value), 10, "0") \o <<" ", "0", "0", "0", "0", "0", " ", "n", " ", "\n">>

xrefEntries(offs) == concat([k \in 1..(Len(offs) - 1) |-> xrefEntry(offs[k + 1])])

xref(objs, offs) ==
  <<"x", "r", "e", "f", "\n", "0", " ">> \o toString(Len(objs) + 1) \o <<"\n", "0", "0", "0", "0", "0", "0", "0", "0", "0", "0", " ", "6", "5", "5", "3", "5", " ", "f", " ", "\n">>
  \o xrefEntries(offs)

trailer(objs, start) ==
  <<"t", "r", "a", "i", "l", "e", "r", "\n", "<", "<", " ", "/", "S", "i", "z", "e", " ">> \o toString(Len(objs) + 1) \o <<" ", "/", "R", "o", "o", "t", " ", "1", " ", "0", " ", "R", " ", ">", ">", "\n", "s", "t", "a", "r", "t", "x", "r", "e", "f", "\n">>
  \o toString(start) \o <<"\n", "%", "%", "E", "O", "F">>

\* new Blob([header, ...objects, xref, trailer]): the UTF-8 bytes of the parts, in order
blobBytes(parts) == concat([k \in 1..Len(parts) |-> encode(parts[k])])

----------------------------------------------------------------------------
(* The application state of App and the values derived from it. *)

\* the value of a state variable or of a property that holds nothing
Undefined == [undefined |-> TRUE]

\* const seedSheets
seedSheets ==
  << [id |-> <<"m", "a", "r", "k", "e", "t", "-", "i", "n", "s", "i", "g", "h", "t", "s">>, name |-> <<"M", "a", "r", "k", "e", "t", " ", "I", "n", "s", "i", "g", "h", "t", "s">>,
      lastUpdated |-> <<"T", "o", "d", "a", "y", " ", "U+00B7", " ", "2", ":", "1", "4", " ", "P", "M">>,
      rows |-> << <<<<"S", "e", "g", "m", "e", "n", "t">>, <<"R", "e", "v", "e", "n", "u", "e">>, <<"G", "r", "o", "w", "t", "h">>, <<"N", "o", "t", "e", "s">>>>,
                  <<<<"S", "M", "B">>, <<"$", "1", "8", "0", ",", "0", "0", "0">>, <<"1", "2", "%">>, <<"H", "i", "g", "h", " ", "r", "e", "t", "e", "n", "t", "i", "o", "n">>>>,
                  <<<<"M", "i", "d", "-", "M", "a", "r", "k", "e", "t">>, <<"$", "4", "2", "0", ",", "0", "0", "0">>, <<"1", "8", "%">>, <<"U", "p", "s", "e", "l", "l", " ", "r", "e", "a", "d", "y">>>>,
                  <<<<"E", "n", "t", "e", "r", "p", "r", "i", "s", "e">>, <<"$", "9", "6", "0", ",", "0", "0", "0">>, <<"9", "%">>, <<"L", "o", "n", "g", "e", "r", " ", "s", "a", "l", "e", "s", " ", "c", "y", "c", "l", "e">>>> >>],
     [id |-> <<"c", "a", "m", "p", "a", "i", "g", "n", "-", "t", "r", "a", "c", "k", "e", "r">>, name |-> <<"C", "a", "m", "p", "a", "i", "g", "n", " ", "T", "r", "a", "c", "k", "e", "r">>,
      lastUpdated |-> <<"Y", "e", "s", "t", "e", "r", "d", "a", "y", " ", "U+00B7", " ", "6", ":", "4", "7", " ", "P", "M">>,
      rows |-> << <<<<"C", "h", "a", "n", "n", "e", "l">>, <<"S", "p", "e", "n", "d">>, <<"L", "e", "a", "d", "s">>, <<"C", "P", "A">>>>,
                  <<<<"L", "i", "n", "k", "e", "d", "I", "n">>, <<"$", "2", "4", ",", "0", "0", "0">>, <<"2", "1", "0">>, <<"$", "1", "1", "4">>>>,
                  <<<<"S", "e", "a", "r", "c", "h">>, <<"$", "1", "8", ",", "5", "0", "0">>, <<"3", "0", "0">>, <<"$", "6", "2">>>>,
                  <<<<"E", "v", "e", "n", "t", "s">>, <<"$", "1", "2", ",", "4", "0", "0">>, <<"8", "5">>, <<"$", "1", "4", "6">>>> >>] >>

\* the analysis layer of useState and of the reset of sendPrompt (lines 691-699)
emptyAnalysisLayer ==
  [overview |-> <<>>, keyPoints |-> <<>>, structuredPlan |-> <<>>, opportunities |-> <<>>,
   risks |-> <<>>, dataAttribution |-> <<>>, confidence |-> <<>>]

\* the arguments of the useState calls, those of sheets and activeSheetId left out
InitChat ==
  /\ messages = <<>>
  /\ input = <<>>
  /\ apiKey = <<>>
  /\ isSending = FALSE
  /\ apiStatus = Undefined
  /\ reportSummary = <<>>
  /\ reportHighlights = <<>>
  /\ reportMetrics = <<>>
  /\ analysisLayer = emptyAnalysisLayer
  /\ aiActions = <<<<"H", "i", "g", "h", "l", "i", "g", "h", "t", " ", "t", "o", "p", " ", "g", "r", "o", "w", "t", "h", " ", "r", "o", "w", "s">>, <<"A", "d", "d", " ", "a", " ", "s", "u", "m", "m", "a", "r", "y", " ", "t", "a", "b">>,
                   <<"A", "n", "i", "m", "a", "t", "e", " ", "K", "P", "I", " ", "c", "a", "r", "d", "s">>, <<"I", "n", "s", "e", "r", "t", " ", "f", "o", "r", "e", "c", "a", "s", "t", " ", "c", "h", "a", "r", "t">>>>
  /\ chartData = [title |-> <<"C", "h", "a", "r", "t", " ", "p", "r", "e", "v", "i", "e", "w">>,
                  labels |-> <<<<"Q", "1">>, <<"Q", "2">>, <<"Q", "3">>, <<"Q", "4">>>>,
                  values |-> <<72, 88, 56, 80>>]
  /\ scraperStatus = Undefined
  /\ pending = <<>>
  /\ thrown = FALSE

\* the state after the first render when no sheet is stored
InitApp ==
  /\ sheets = seedSheets
  /\ activeSheetId = seedSheets[1].id
  /\ InitChat

\* sheets.findIndex((sheet) => sheet.id === activeSheetId), 0-based, -1 when none
findIndex(shts, id) ==
  IF \E k \in 1..Len(shts) : shts[k].id = id
  THEN (CHOOSE k \in 1..Len(shts) :
          /\ shts[k].id = id
          /\ \A j \in 1..(k - 1) : shts[j].id /= id) - 1
  ELSE -1

\* const activeSheetIndex
activeSheetIndex == Max({0, findIndex(sheets, activeSheetId)})

\* const activeSheet
activeSheet ==
  IF activeSheetIndex < Len(sheets) THEN sheets[activeSheetIndex + 1] ELSE seedSheets[1]

defaultReportSummary ==
  <<"S", "t", "a", "r", "t", " ", "f", "r", "o", "m", " ", "a", " ", "s", "p", "r", "e", "a", "d", "s", "h", "e", "e", "t", " ", "a", "n", "d", " ", "w", "e", "'", "l", "l", " ", "g", "e", "n", "e", "r", "a", "t", "e", " ", "a", " ", "r", "e", "p", "o", "r", "t", ",", " ", "c", "h", "a", "r", "t", "s", ",", " ", "a", "n", "d", " ", "e", "x", "p", "o", "r", "t", "-", "r", "e", "a", "d", "y", " ", "d", "a", "t", "a", ".">>

defaultAnalysisOverview ==
  <<"G", "e", "n", "e", "r", "a", "t", "e", " ", "a", " ", "r", "e", "p", "o", "r", "t", " ", "t", "o", " ", "s", "e", "e", " ", "t", "h", "e", " ", "s", "t", "r", "a", "t", "e", "g", "i", "c", " ", "s", "y", "n", "t", "h", "e", "s", "i", "s", " ", "a", "n", "d", " ", "d", "a", "t", "a", " ", "a", "t", "t", "r", "i", "b", "u", "t", "i", "o", "n", " ", "l", "a", "y", "e", "r", ".">>

\* reportSummary || defaultReportSummary
reportSummaryText == IF reportSummary /= <<>> THEN reportSummary ELSE defaultReportSummary

\* analysisLayer?.overview || defaultAnalysisOverview
analysisOverviewText ==
  IF analysisLayer /= Undefined /\ "overview" \in DOMAIN analysisLayer
     /\ analysisLayer.overview /= <<>>
  THEN analysisLayer.overview
  ELSE defaultAnalysisOverview

\* analysisLayer?.[field] ?? fallback
analysisField(field, fallback) ==
  IF analysisLayer /= Undefined /\ field \in DOMAIN analysisLayer
  THEN analysisLayer[field]
  ELSE fallback

analysisKeyPoints == analysisField("keyPoints", <<>>)
analysisStructuredPlan == analysisField("structuredPlan", <<>>)
analysisOpportunities == analysisField("opportunities", <<>>)
analysisRisks == analysisField("risks", <<>>)
analysisDataAttribution == analysisField("dataAttribution", <<>>)
analysisConfidence == analysisField("confidence", <<>>)

----------------------------------------------------------------------------
(* buildReportLines and buildReportCsvRows.  Each group of push calls of    *)
(* the code is one section, named after what it holds; the value returned   *)
(* is the concatenation of the sections in the order of the pushes.         *)

\* `${chartData.values[index]}`, without the default: a missing value reads "undefined"
chartValue_noDefault(values, i) ==
  IF i < Len(values) THEN toString(values[i + 1])
  ELSE <<"u", "n", "d", "e", "f", "i", "n", "e", "d">>

\* `${chartData.values[index] ?? 0}`, index 0-based
chartValue(values, i) == IF i < Len(values) THEN toString(values[i + 1]) ELSE <<"0">>

\* a header line and one bulleted line per item, pushed whatever the list holds
bulletSection_alwaysHeader(name, heading, items) ==
  << [section |-> name,
      lines |-> <<heading>> \o [k \in 1..Len(items) |-> <<"U+2022", " ">> \o items[k]]] >>

\* if (items.length > 0) { lines.push(heading); items.forEach(... `• ${item}`) }
bulletSection(name, heading, items) ==
  IF Len(items) > 0
  THEN << [section |-> name,
           lines |-> <<heading>> \o [k \in 1..Len(items) |-> <<"U+2022", " ">> \o items[k]]] >>
  ELSE <<>>

\* lines.push("")
blankLine == << [section |-> "blank", lines |-> << <<>> >>] >>

\* the sections of buildReportLines, in the order they are pushed
lineSections ==
  << [section |-> "summary", lines |-> <<<<"R", "e", "p", "o", "r", "t", " ", "s", "u", "m", "m", "a", "r", "y">>, reportSummaryText>>] >>
  \o bulletSection("highlights", <<"H", "i", "g", "h", "l", "i", "g", "h", "t", "s">>, reportHighlights)
  \o (IF Len(reportMetrics) > 0
      THEN << [section |-> "metrics",
               lines |-> <<<<"M", "e", "t", "r", "i", "c", "s">>>>
                         \o [k \in 1..Len(reportMetrics) |->
                               reportMetrics[k].label \o <<":", " ">> \o reportMetrics[k].value]] >>
      ELSE <<>>)
  \o blankLine
  \o << [section |-> "overview", lines |-> <<<<"S", "t", "r", "a", "t", "e", "g", "i", "c", " ", "a", "n", "a", "l", "y", "s", "i", "s", " ", "l", "a", "y", "e", "r">>, analysisOverviewText>>] >>
  \o bulletSection("keyPoints", <<"K", "e", "y", " ", "p", "o", "i", "n", "t", "s">>, analysisKeyPoints)
  \o bulletSection("structuredPlan", <<"S", "t", "r", "u", "c", "t", "u", "r", "e", "d", " ", "p", "l", "a", "n">>, analysisStructuredPlan)
  \o bulletSection("opportunities", <<"O", "p", "p", "o", "r", "t", "u", "n", "i", "t", "i", "e", "s">>, analysisOpportunities)
  \o bulletSection("risks", <<"R", "i", "s", "k", "s">>, analysisRisks)
  \o (IF Len(analysisDataAttribution) > 0
      THEN << [section |-> "attribution",
               lines |-> <<<<"D", "a", "t", "a", " ", "a", "t", "t", "r", "i", "b", "u", "t", "i", "o", "n">>>>
                         \o [k \in 1..Len(analysisDataAttribution) |->
                               <<"U+2022", " ">> \o analysisDataAttribution[k].source
                               \o <<":", " ">> \o analysisDataAttribution[k].notes]] >>
      ELSE <<>>)
  \o (IF analysisConfidence /= <<>>
      THEN << [section |-> "confidence", lines |-> <<<<"C", "o", "n", "f", "i", "d", "e", "n", "c", "e", ":", " ">> \o analysisConfidence>>] >>
      ELSE <<>>)
  \o blankLine
  \o << [section |-> "sheet",
         lines |-> <<activeSheet.name \o <<" ", "(", "L", "a", "s", "t", " ", "u", "p", "d", "a", "t", "e", "d", " ">> \o activeSheet.lastUpdated \o <<")">> >>] >>
  \o (IF Len(activeSheet.rows) > 0
      THEN << [section |-> "sheetRows",
               lines |-> [k \in 1..Len(activeSheet.rows) |-> join(activeSheet.rows[k], <<" ", "|", " ">>)]] >>
      ELSE <<>>)
  \o blankLine
  \o << [section |-> "chartTitle", lines |-> <<chartData.title>>] >>
  \o (IF Len(chartData.labels) > 0
      THEN << [section |-> "chartRows",
               lines |-> [k \in 1..Len(chartData.labels) |->
                            chartData.labels[k] \o <<":", " ">> \o chartValue(chartData.values, k - 1)]] >>
      ELSE <<>>)
  \o (IF Len(aiActions) > 0
      THEN blankLine \o bulletSection("actions", <<"A", "I", " ", "a", "c", "t", "i", "o", "n", "s">>, aiActions)
      ELSE <<>>)

\* the value returned by buildReportLines
buildReportLines ==
  LET sections == lineSections
  IN  concat([k \in 1..Len(sections) |-> sections[k].lines])

\* a header row and one row per item, pushed whatever the list holds
itemSection_alwaysHeader(name, heading, items) ==
  << [section |-> name, rows |-> << <<heading>> >> \o [k \in 1..Len(items) |-> <<items[k]>>]] >>

\* if (items.length > 0) { rows.push([heading]); items.forEach((item) => rows.push([item])) }
itemSection(name, heading, items) ==
  IF Len(items) > 0
  THEN << [section |-> name, rows |-> << <<heading>> >> \o [k \in 1..Len(items) |-> <<items[k]>>]] >>
  ELSE <<>>

\* rows.push([])
blankRow == << [section |-> "blank", rows |-> << <<>> >>] >>

\* the sections of buildReportCsvRows, in the order they are pushed
rowSections ==
  << [section |-> "summary", rows |-> << <<<<"R", "e", "p", "o", "r", "t", " ", "s", "u", "m", "m", "a", "r", "y">>, reportSummaryText>> >>] >>
  \o itemSection("highlights", <<"H", "i", "g", "h", "l", "i", "g", "h", "t", "s">>, reportHighlights)
  \o (IF Len(reportMetrics) > 0
      THEN << [section |-> "metrics",
               rows |-> << <<<<"M", "e", "t", "r", "i", "c", "s">>>> >>
                        \o [k \in 1..Len(reportMetrics) |->
                              <<reportMetrics[k].label, reportMetrics[k].value>>]] >>
      ELSE <<>>)
  \o blankRow
  \o << [section |-> "overview",
         rows |-> << <<<<"S", "t", "r", "a", "t", "e", "g", "i", "c", " ", "a", "n", "a", "l", "y", "s", "i", "s", " ", "l", "a", "y", "e", "r">>, analysisOverviewText>> >>] >>
  \o itemSection("keyPoints", <<"K", "e", "y", " ", "p", "o", "i", "n", "t", "s">>, analysisKeyPoints)
  \o itemSection("structuredPlan", <<"S", "t", "r", "u", "c", "t", "u", "r", "e", "d", " ", "p", "l", "a", "n">>, analysisStructuredPlan)
  \o itemSection("opportunities", <<"O", "p", "p", "o", "r", "t", "u", "n", "i", "t", "i", "e", "s">>, analysisOpportunities)
  \o itemSection("risks", <<"R", "i", "s", "k", "s">>, analysisRisks)
  \o (IF Len(analysisDataAttribution) > 0
      THEN << [section |-> "attribution",
               rows |-> << <<<<"D", "a", "t", "a", " ", "a", "t", "t", "r", "i", "b", "u", "t", "i", "o", "n">>>> >>
                        \o [k \in 1..Len(analysisDataAttribution) |->
                              <<analysisDataAttribution[k].source \o <<":", " ">>
                                \o analysisDataAttribution[k].notes>>]] >>
      ELSE <<>>)
  \o (IF analysisConfidence /= <<>>
      THEN << [section |-> "confidence", rows |-> << <<<<"C", "o", "n", "f", "i", "d", "e", "n", "c", "e">>, analysisConfidence>> >>] >>
      ELSE <<>>)
  \o blankRow
  \o << [section |-> "sheet",
         rows |-> << <<activeSheet.name, <<"L", "a", "s", "t", " ", "u", "p", "d", "a", "t", "e", "d", " ">> \o activeSheet.lastUpdated>> >>] >>
  \o blankRow
  \o (IF Len(activeSheet.rows) > 0
      THEN << [section |-> "sheetRows", rows |-> activeSheet.rows] >>
      ELSE <<>>)
  \o blankRow
  \o << [section |-> "chartTitle", rows |-> << <<<<"C", "h", "a", "r", "t">>, chartData.title>> >>] >>
  \o << [section |-> "chartRows",
         rows |-> << <<<<"L", "a", "b", "e", "l">>, <<"V", "a", "l", "u", "e">>>> >>
                  \o [k \in 1..Len(chartData.labels) |->
                        <<chartData.labels[k], chartValue(chartData.values, k - 1)>>]] >>
  \o (IF Len(aiActions) > 0
      THEN blankRow \o itemSection("actions", <<"A", "I", " ", "a", "c", "t", "i", "o", "n", "s">>, aiActions)
      ELSE <<>>)

\* the value returned by buildReportCsvRows
buildReportCsvRows ==
  LET sections == rowSections
  IN  concat([k \in 1..Len(sections) |-> sections[k].rows])

----------------------------------------------------------------------------
(* toCsv and downloadBlob *)

\* a cell written as one field
toCsvCell_keepsQuotes(cell) == <<"\"">> \o cell \o <<"\"">>

\* `"${cell.replace(/"/g, '""')}"`
toCsvCell(cell) == <<"\"">> \o replaceAll(cell, "\"", <<"\"", "\"">>) \o <<"\"">>

\* a row without cells written as one empty field
toCsvRow_padsEmpty(row) ==
  IF row = <<>> THEN <<"\"", "\"">>
  ELSE join([k \in 1..Len(row) |-> toCsvCell(row[k])], <<",">>)

\* row.map(...).join(",")
toCsvRow(row) == join([k \in 1..Len(row) |-> toCsvCell(row[k])], <<",">>)

\* rows.map(...).join("\n")
toCsv(rws) == join([k \in 1..Len(rws) |-> toCsvRow(rws[k])], <<"\n">>)

\* no file has been handed to the browser
NoDownload == [filename |-> <<>>, type |-> <<>>, bytes |-> <<>>]

\* downloadBlob(content, filename, type): the file offered to the browser; bytes are
\* the bytes of the Blob (a string content becomes new Blob([content]), its UTF-8 bytes)
downloadBlob(bytes, filename, type) ==
  [filename |-> filename, type |-> type, bytes |-> bytes]

InitOther ==
  /\ rows = <<>>
  /\ csv = <<>>
  /\ download = NoDownload
  /\ InitApp

----------------------------------------------------------------------------
(* The steps of buildPdf. *)

\* line 533
Wrap ==
  /\ pc = "start"
  /\ wrappedLines' = wrapLines(lines, geometry)
  /\ index' = 0
  /\ pc' = "paginate"
  /\ UNCHANGED <<lines, geometry, pages, objects, offsets, offset, xrefStart, blob>>
  /\ UNCHANGED otherVars

\* one iteration of the loop of lines 535-537
PaginateStep ==
  /\ pc = "paginate"
  /\ index < Len(wrappedLines)
  /\ pages' = Append(pages, slice(wrappedLines, index, index + maxLinesPerPage(geometry)))
  /\ index' = index + maxLinesPerPage(geometry)
  /\ UNCHANGED <<lines, geometry, pc, wrappedLines, objects, offsets, offset, xrefStart, blob>>
  /\ UNCHANGED otherVars

\* the exit of the loop without the fallback page of lines 538-540
PaginateEnd_noFallback ==
  /\ pc = "paginate"
  /\ ~(index < Len(wrappedLines))
  /\ pc' = "objects"
  /\ UNCHANGED <<lines, geometry, wrappedLines, index, pages, objects, offsets, offset, xrefStart, blob>>
  /\ UNCHANGED otherVars

\* the exit of the loop and lines 538-540
PaginateEnd ==
  /\ pc = "paginate"
  /\ ~(index < Len(wrappedLines))
  /\ pages' = IF Len(pages) = 0 THEN << << <<>> >> >> ELSE pages
  /\ pc' = "objects"
  /\ UNCHANGED <<lines, geometry, wrappedLines, index, objects, offsets, offset, xrefStart, blob>>
  /\ UNCHANGED otherVars

\* lines 541-574
BuildObjects ==
  /\ pc = "objects"
  /\ objects' = buildObjects(pages, geometry)
  /\ offsets' = <<0>>
  /\ offset' = byteLength(header)
  /\ pc' = "offsets"
  /\ UNCHANGED <<lines, geometry, wrappedLines, index, pages, xrefStart, blob>>
  /\ UNCHANGED otherVars

\* the callback recording the offset after adding the object's length to it
OffsetStep_pushesAfter ==
  /\ pc = "offsets"
  /\ Len(offsets) <= Len(objects)
  /\ offsets' = Append(offsets, offset + byteLength(objects[Len(offsets)]))
  /\ offset' = offset + byteLength(objects[Len(offsets)])
  /\ UNCHANGED <<lines, geometry, pc, wrappedLines, index, pages, objects, xrefStart, blob>>
  /\ UNCHANGED otherVars

\* one call of the callback of objects.forEach, lines 575-578
OffsetStep ==
  /\ pc = "offsets"
  /\ Len(offsets) <= Len(objects)
  /\ offsets' = Append(offsets, offset)
  /\ offset' = offset + byteLength(objects[Len(offsets)])
  /\ UNCHANGED <<lines, geometry, pc, wrappedLines, index, pages, objects, xrefStart, blob>>
  /\ UNCHANGED otherVars

\* lines 579-586
Emit ==
  /\ pc = "offsets"
  /\ Len(offsets) > Len(objects)
  /\ xrefStart' = offset
  /\ blob' = blobBytes(<<header>> \o objects \o <<xref(objects, offsets), trailer(objects, offset)>>)
  /\ pc' = "done"
  /\ UNCHANGED <<lines, geometry, wrappedLines, index, pages, objects, offsets, offset>>
  /\ UNCHANGED otherVars

----------------------------------------------------------------------------
(* Inputs. *)

\* buildPdf fixes its geometry (ShippedGeometry, 40 lines of 90 characters per
\* page).  To reach page breaks and wrapped lines with short inputs the same code
\* is also run with geometries of 1, 2 and 3 lines per page and wrap widths 1 and 2.
OneLineGeometry ==
  [lineHeight |-> 2, fontSize |-> 1, margin |-> 1, pageHeight |-> 4, maxLineLength |-> 1]
TwoLineGeometry ==
  [lineHeight |-> 2, fontSize |-> 1, margin |-> 1, pageHeight |-> 6, maxLineLength |-> 2]
ThreeLineGeometry ==
  [lineHeight |-> 2, fontSize |-> 1, margin |-> 1, pageHeight |-> 8, maxLineLength |-> 1]

ValidGeometries == {ShippedGeometry, OneLineGeometry, TwoLineGeometry, ThreeLineGeometry}

\* the ReportLines tried: "", " ", "a b", e acute, bullet + " a", "( )", "\(\"
LineChoices ==
  {<<>>, <<" ">>, <<"a", " ", "b">>, <<"U+00E9">>, <<"U+2022", " ", "a">>,
   <<"(", " ", ")">>, <<"\\", "(", "\\">>}

InitLocals ==
  /\ pc = "start"
  /\ wrappedLines = <<>>
  /\ index = 0
  /\ pages = <<>>
  /\ objects = <<>>
  /\ offsets = <<>>
  /\ offset = 0
  /\ xrefStart = 0
  /\ blob = <<>>

Init ==
  /\ lines \in StringsUpTo(LineChoices, MaxLines)
  /\ geometry \in ValidGeometries
  /\ InitLocals
  /\ InitOther

Next == Wrap \/ PaginateStep \/ PaginateEnd \/ BuildObjects \/ OffsetStep \/ Emit

Spec == Init /\ [][Next]_vars

----------------------------------------------------------------------------
(* wrapText on its own: buildPdf's wrapping step over one line of text. *)

Whitespace == {" ", "\t"}

WrapAlphabet == {"a", "b"} \cup Whitespace

WrapGeometry(w) == [ShippedGeometry EXCEPT !.maxLineLength = w]

InitWrap ==
  /\ lines \in {<<text>> : text \in StringsUpTo(WrapAlphabet, MaxTextLen)}
  /\ geometry \in {WrapGeometry(w) : w \in 1..MaxWidth}
  /\ InitLocals
  /\ InitOther

NextWrap == Wrap

SpecWrap == InitWrap /\ [][NextWrap]_vars

----------------------------------------------------------------------------
(* Claims about wrapText, checked under SpecWrap. *)

\* the whitespace-delimited tokens of a string, in order
Tokens(s) ==
  LET starts == {i \in 1..Len(s) : s[i] \notin Whitespace /\ (i = 1 \/ s[i - 1] \in Whitespace)}
      end(i) == Min({j \in i..Len(s) : j = Len(s) \/ s[j + 1] \in Whitespace})
      nth(k) == CHOOSE i \in starts : Cardinality({j \in starts : j < i}) = k - 1
  IN  [k \in 1..Cardinality(starts) |-> SubSeq(s, nth(k), end(nth(k)))]

\* wrapText has returned
Wrapped == pc # "start"

\* C6: wrapText(s, W) is a non-empty sequence of sub-lines for every string s,
\* strings made only of spaces included, and it is [""] for the empty string.
C6_WrapNonEmpty ==
  Wrapped => /\ Len(wrappedLines) >= 1
             /\ (lines[1] = <<>> => wrappedLines = << <<>> >>)

C8_TokensPreserved ==
  Wrapped => Tokens(join(wrappedLines, <<" ">>)) = Tokens(lines[1])

\* a text of two tokens or more around a run of whitespace has been wrapped into
\* two sub-lines or more
C8_Witness ==
  /\ Wrapped
  /\ Len(wrappedLines) >= 2
  /\ Len(Tokens(lines[1])) >= 2
  /\ \E i \in 1..(Len(lines[1]) - 1) :
       lines[1][i] \in Whitespace /\ lines[1][i + 1] \in Whitespace

----------------------------------------------------------------------------
(* Claims about the pagination step of buildPdf, checked under Spec. *)

\* the pagination step is over: the loop has exited and the fallback has run
Paginated == pc \in {"objects", "offsets", "done"}

RECURSIVE SumOfLengths(_)
SumOfLengths(seqs) ==
  IF Len(seqs) = 0 THEN 0 ELSE Len(Head(seqs)) + SumOfLengths(Tail(seqs))

\* C3 as claimed: the page lengths sum to the number of wrapped lines and the
\* pages, concatenated in page order, are exactly the wrapped lines.
C3_PagesPartitionWrappedLines ==
  Paginated => /\ SumOfLengths(pages) = Len(wrappedLines)
               /\ concat(pages) = wrappedLines

\* C3 as amended: the same when there is at least one wrapped line; when there
\* is none the pages hold one line, the empty string, that is no wrapped line.
C3_PagesPartitionNonEmptyWrappedLines ==
  Paginated =>
    IF Len(wrappedLines) > 0
    THEN /\ SumOfLengths(pages) = Len(wrappedLines)
         /\ concat(pages) = wrappedLines
    ELSE /\ SumOfLengths(pages) = 1
         /\ concat(pages) = << <<>> >>

\* distinct wrapped lines have been split into a full page and a shorter last page
C3_Witness ==
  /\ Paginated
  /\ Len(pages) >= 2
  /\ Len(pages[1]) >= 2
  /\ Len(pages[Len(pages)]) < Len(pages[1])
  /\ \A i, j \in 1..Len(wrappedLines) : i # j => wrappedLines[i] # wrappedLines[j]

\* C4: there is at least one page, no page is empty, every page but the last
\* holds exactly maxLinesPerPage lines and the last holds 1..maxLinesPerPage.
C4_PageSizes ==
  Paginated =>
    /\ Len(pages) >= 1
    /\ \A i \in 1..Len(pages) :
         /\ Len(pages[i]) >= 1
         /\ Len(pages[i]) <= maxLinesPerPage(geometry)
         /\ (i < Len(pages) => Len(pages[i]) = maxLinesPerPage(geometry))

\* three pages of two lines or more have been produced, the last one short
C4_Witness ==
  /\ Paginated
  /\ Len(pages) >= 2
  /\ maxLinesPerPage(geometry) >= 2
  /\ Len(pages[Len(pages)]) < maxLinesPerPage(geometry)

\* C5: when there is no wrapped line the document has exactly one page holding
\* exactly one line, the empty string; there is never a document of zero pages.
C5_EmptyInputOnePage ==
  Paginated => /\ Len(pages) >= 1
               /\ (Len(wrappedLines) = 0 => pages = << << <<>> >> >>)

\* buildPdf has returned for the empty ReportLine sequence
C5_Witness ==
  /\ pc = "done"
  /\ lines = <<>>
  /\ pages = << << <<>> >> >>

----------------------------------------------------------------------------
(* A reader of the emitted bytes.  Positions are 0-based byte offsets.      *)


\* the bytes of pat stand at offset pos of buf
startsWithAt(buf, pos, pat) ==
  /\ pos >= 0
  /\ pos + Len(pat) <= Len(buf)
  /\ \A k \in 1..Len(pat) : buf[pos + k] = pat[k]

\* the offset of the first occurrence of pat that lies between the offsets from and
\* to, -1 when there is none
findIn(buf, pat, from, to) ==
  IF \E q \in from..(to - Len(pat)) : startsWithAt(buf, q, pat)
  THEN CHOOSE q \in from..(to - Len(pat)) :
         /\ startsWithAt(buf, q, pat)
         /\ \A r \in from..(q - 1) : ~startsWithAt(buf, r, pat)
  ELSE -1

\* the offset of the first occurrence of pat at or after from, -1 when there is none
find(buf, pat, from) == findIn(buf, pat, from, Len(buf))

\* the offset of the last occurrence of pat, -1 when there is none
findLast(buf, pat) ==
  LET last == Len(buf) - Len(pat)
  IN  IF \E k \in 0..last : startsWithAt(buf, last - k, pat)
      THEN last - (CHOOSE k \in 0..last :
                     /\ startsWithAt(buf, last - k, pat)
                     /\ \A j \in 0..(k - 1) : ~startsWithAt(buf, last - j, pat))
      ELSE -1

IsDigit(b) == b \in {"0", "1", "2", "3", "4", "5", "6", "7", "8", "9"}

DigitValue(b) == (CHOOSE d \in 1..10 : Digit[d] = b) - 1

RECURSIVE natOf(_)
natOf(digits) ==
  IF Len(digits) = 0 THEN 0
  ELSE natOf(SubSeq(digits, 1, Len(digits) - 1)) * 10 + DigitValue(digits[Len(digits)])

\* the offset just past the run of digits that starts at offset pos
digitsEnd(buf, pos) ==
  CHOOSE q \in pos..Len(buf) :
    /\ q = Len(buf) \/ ~IsDigit(buf[q + 1])
    /\ \A r \in pos..(q - 1) : IsDigit(buf[r + 1])

\* the offset of the first digit of the run of digits that ends just before offset pos
digitsStart(buf, pos) ==
  pos - (CHOOSE k \in 0..pos :
           /\ k = pos \/ ~IsDigit(buf[pos - k])
           /\ \A j \in 0..(k - 1) : IsDigit(buf[pos - j]))

\* the number written in decimal at offset pos, -1 when no digit stands there
parseNat(buf, pos) ==
  IF pos < 0 \/ pos >= Len(buf) \/ ~IsDigit(buf[pos + 1]) THEN -1
  ELSE natOf(SubSeq(buf, pos + 1, digitsEnd(buf, pos)))

\* the number written after the first occurrence of key at or after from
numberAfter(buf, key, from) ==
  LET at == find(buf, key, from)
  IN  IF at < 0 THEN -1 ELSE parseNat(buf, at + Len(key))

\* the identities n of the indirect references "n 0 R" of a text
refsIn(buf) ==
  {natOf(SubSeq(buf, digitsStart(buf, q) + 1, q)) :
     q \in {r \in 1..Len(buf) : IsDigit(buf[r]) /\ startsWithAt(buf, r, <<" ", "0", " ", "R">>)}}

\* the value of startxref
ReadStartXref == numberAfter(blob, <<"s", "t", "a", "r", "t", "x", "r", "e", "f", "\n">>, findLast(blob, <<"s", "t", "a", "r", "t", "x", "r", "e", "f", "\n">>))

\* the entry count of the cross-reference section
ReadXrefCount == numberAfter(blob, <<"x", "r", "e", "f", "\n", "0", " ">>, ReadStartXref)

\* the offset of the first (sentinel) cross-reference entry
ReadXrefEntriesAt == digitsEnd(blob, ReadStartXref + 7) + 1

\* the offset recorded by the cross-reference entry of identity n
ReadOffset(n) == parseNat(blob, ReadXrefEntriesAt + 20 * n)

ReadTrailerAt == find(blob, <<"t", "r", "a", "i", "l", "e", "r", "\n">>, ReadStartXref)

ReadSize == numberAfter(blob, <<"/", "S", "i", "z", "e", " ">>, ReadTrailerAt)

ReadRoot == numberAfter(blob, <<"/", "R", "o", "o", "t", " ">>, ReadTrailerAt)

\* the object of identity n is found through the cross-reference table
ReadResolves(n) ==
  /\ n >= 1
  /\ n < ReadXrefCount
  /\ startsWithAt(blob, ReadOffset(n), toString(n) \o <<" ", "0", " ", "o", "b", "j", "\n">>)

\* the bytes of the object of identity n, "endobj" included, its stream data left out
ReadDictionary(n) ==
  LET at      == ReadOffset(n)
      endobj  == find(blob, <<"e", "n", "d", "o", "b", "j">>, at)
      stream  == findIn(blob, <<"s", "t", "r", "e", "a", "m", "\n">>, at, endobj)
  IN  IF stream >= 0
      THEN SubSeq(blob, at + 1, stream)
      ELSE SubSeq(blob, at + 1, endobj + 6)

\* the stream data of the object of identity n: /Length bytes after "stream\n"
ReadStream(n) ==
  LET at     == ReadOffset(n)
      length == numberAfter(blob, <<"/", "L", "e", "n", "g", "t", "h", " ">>, at)
      data   == find(blob, <<"s", "t", "r", "e", "a", "m", "\n">>, at) + 7
  IN  SubSeq(blob, data + 1, data + length)

ReadPagesRef == numberAfter(ReadDictionary(ReadRoot), <<"/", "P", "a", "g", "e", "s", " ">>, 0)

ReadCount == numberAfter(ReadDictionary(ReadPagesRef), <<"/", "C", "o", "u", "n", "t", " ">>, 0)

\* the identities of the /Kids array of the page tree, in order
ReadKids ==
  LET dict   == ReadDictionary(ReadPagesRef)
      open   == find(dict, <<"/", "K", "i", "d", "s", " ", "[">>, 0) + 7
      close  == find(dict, <<"]">>, open)
      starts == {q \in open..(close - 1) : IsDigit(dict[q + 1]) /\ startsWithAt(dict, digitsEnd(dict, q), <<" ", "0", " ", "R">>)
                                           /\ (q = open \/ ~IsDigit(dict[q]))}
      nth(k) == CHOOSE q \in starts : Cardinality({r \in starts : r < q}) = k - 1
  IN  [k \in 1..Cardinality(starts) |-> parseNat(dict, nth(k))]

ReadContentsRef(page) == numberAfter(ReadDictionary(page), <<"/", "C", "o", "n", "t", "e", "n", "t", "s", " ">>, 0)

ReadParentRef(page) == numberAfter(ReadDictionary(page), <<"/", "P", "a", "r", "e", "n", "t", " ">>, 0)

ReadFontRef(page) == numberAfter(ReadDictionary(page), <<"/", "F", "1", " ">>, 0)


\* the number of backslashes that stand immediately before index q of data
backslashRun(data, q) ==
  Max({k \in 0..(q - 1) : \A j \in 1..k : data[q - j] = "\\"})

\* the byte at index q is taken literally: an odd number of backslashes precedes it
escaped(data, q) == backslashRun(data, q) % 2 = 1

\* the nesting depth of unescaped parentheses before index q
depthBefore(data, q) ==
  Cardinality({r \in 1..(q - 1) : data[r] = "(" /\ ~escaped(data, r)})
  - Cardinality({r \in 1..(q - 1) : data[r] = ")" /\ ~escaped(data, r)})

\* a literal string without its escaping backslashes (the escapes \n, \r, \t, \b, \f
\* and \ddd of the format are not told apart: no text of the model holds them)
unescape(raw) ==
  LET kept   == {q \in 1..Len(raw) : ~(raw[q] = "\\" /\ ~escaped(raw, q))}
      nth(k) == CHOOSE q \in kept : Cardinality({r \in kept : r < q}) = k - 1
  IN  [k \in 1..Cardinality(kept) |-> raw[nth(k)]]

\* the literal strings (...) of a content stream, unescaped, in order
ReadOperands(data) ==
  LET starts   == {q \in 1..Len(data) :
                     data[q] = "(" /\ ~escaped(data, q) /\ depthBefore(data, q) = 0}
      closes(q) == {r \in (q + 1)..Len(data) :
                     data[r] = ")" /\ ~escaped(data, r) /\ depthBefore(data, r) = 1}
      end(q)   == IF closes(q) = {} THEN Len(data) + 1 ELSE Min(closes(q))
      nth(k)   == CHOOSE q \in starts : Cardinality({r \in starts : r < q}) = k - 1
  IN  [k \in 1..Cardinality(starts) |->
         unescape(SubSeq(data, nth(k) + 1, end(nth(k)) - 1))]

\* the pages a reader recovers: for each kid of the page tree, in order, the text
\* operands of its content stream
ReadPages ==
  LET kids == ReadKids
  IN  [k \in 1..Len(kids) |-> ReadOperands(ReadStream(ReadContentsRef(kids[k])))]

----------------------------------------------------------------------------
(* Claims about the emitted document, checked under Spec. *)

Returned == pc = "done"

\* the byte length of the first n objects
RECURSIVE BytesOfObjects(_)
BytesOfObjects(n) == IF n = 0 THEN 0 ELSE BytesOfObjects(n - 1) + Len(encode(objects[n]))

\* C1: the offset recorded for the object of identity k is the byte length of the
\* header and of the objects before it, the object stands at that byte of the
\* buffer, and startxref is the byte position of the xref section.
C1_OffsetsAreBytePositions ==
  Returned =>
    /\ \A k \in 1..Len(objects) :
         /\ offsets[k + 1] = Len(encode(header)) + BytesOfObjects(k - 1)
         /\ ReadOffset(k) = offsets[k + 1]
         /\ startsWithAt(blob, ReadOffset(k), toString(k) \o <<" ", "0", " ", "o", "b", "j", "\n">>)
    /\ xrefStart = Len(encode(header)) + BytesOfObjects(Len(objects))
    /\ ReadStartXref = xrefStart
    /\ startsWithAt(blob, ReadStartXref, <<"x", "r", "e", "f", "\n">>)

\* a document of two pages has been emitted whose first page holds a character
\* that encodes to more than one byte
C1_Witness ==
  /\ Returned
  /\ Len(pages) >= 2
  /\ \E j \in 1..Len(pages[1]) : \E k \in 1..Len(pages[1][j]) :
       Len(utf8(pages[1][j][k])) > 1

\* the identities referenced by the dictionaries of the objects and by the trailer
AllReferences ==
  UNION {refsIn(ReadDictionary(n)) : n \in 1..Len(objects)}
  \cup refsIn(SubSeq(blob, ReadTrailerAt + 1, Len(blob)))

\* C2: every referenced identity is the identity of an emitted object with a
\* recorded offset, and the entry count of the cross-reference section and the
\* trailer's /Size are the object count + 1.
C2_ReferencesResolve ==
  Returned =>
    /\ LET kids == ReadKids
           refs == AllReferences
       IN  /\ \A n \in refs : n \in 1..Len(objects) /\ ReadResolves(n)
           /\ refs = {ReadRoot, ReadPagesRef} \cup {kids[k] : k \in 1..Len(kids)}
                     \cup UNION {{ReadParentRef(kids[k]), ReadContentsRef(kids[k]),
                                  ReadFontRef(kids[k])} : k \in 1..Len(kids)}
    /\ Len(offsets) = Len(objects) + 1
    /\ ReadXrefCount = Len(objects) + 1
    /\ ReadSize = Len(objects) + 1
    /\ ReadTrailerAt = ReadXrefEntriesAt + 20 * (Len(objects) + 1)

\* a document of two pages or more has been emitted
C2_Witness ==
  /\ Returned
  /\ Len(pages) >= 2
  /\ Cardinality(AllReferences) >= 7

\* the wrapped lines a reader is to recover, page by page, as bytes
ExpectedPages ==
  LET n         == Len(wrappedLines)
      perPage   == maxLinesPerPage(geometry)
      pageCount == (n + perPage - 1) \div perPage
      size(k)   == IF k * perPage <= n THEN perPage ELSE n - (k - 1) * perPage
  IN  [k \in 1..pageCount |->
         [j \in 1..size(k) |-> encode(wrappedLines[(k - 1) * perPage + j])]]

\* C9: for N >= 1 wrapped lines a reader recovers ceil(N / maxLinesPerPage) pages
\* whose text operands, unescaped, are the wrapped lines in order.
C9_ReaderRecoversLines ==
  (Returned /\ Len(wrappedLines) >= 1) =>
    LET expected == ExpectedPages
    IN  /\ ReadCount = Len(expected)
        /\ Len(ReadKids) = Len(expected)
        /\ ReadPages = expected

\* a document of two pages or more has been read back whose lines hold a
\* backslash, a parenthesis and a character of more than one byte
C9_Witness ==
  /\ Returned
  /\ Len(ReadPages) >= 2
  /\ \E i \in 1..Len(wrappedLines) : \E k \in 1..(Len(wrappedLines[i]) - 1) :
       wrappedLines[i][k] = "\\" /\ wrappedLines[i][k + 1] = "("
  /\ \E i \in 1..Len(wrappedLines) : \E k \in 1..Len(wrappedLines[i]) :
       Len(utf8(wrappedLines[i][k])) > 1

----------------------------------------------------------------------------
(* buildPdf with a degenerate geometry: the layout constants of lines       *)
(* 527-531 replaced by values that leave no room for a line, or that are    *)
(* not positive.  A line height of 0 is left out: the division of line 532  *)
(* then yields Infinity, which the integers of the model do not hold.       *)

\* floor((4 - 2) / 3) = 0 lines per page
NoLineGeometry ==
  [lineHeight |-> 3, fontSize |-> 1, margin |-> 1, pageHeight |-> 4, maxLineLength |-> 2]
\* floor((4 - 6) / 2) = -1 lines per page
NegativeLinesGeometry ==
  [lineHeight |-> 2, fontSize |-> 1, margin |-> 3, pageHeight |-> 4, maxLineLength |-> 2]
\* a margin of 0 with 2 lines per page
NoMarginGeometry ==
  [lineHeight |-> 2, fontSize |-> 1, margin |-> 0, pageHeight |-> 4, maxLineLength |-> 2]
\* a font size of 0 with 1 line per page
NoFontSizeGeometry ==
  [lineHeight |-> 2, fontSize |-> 0, margin |-> 1, pageHeight |-> 4, maxLineLength |-> 2]

DegenerateGeometries ==
  {NoLineGeometry, NegativeLinesGeometry, NoMarginGeometry, NoFontSizeGeometry}

Degenerate(g) ==
  \/ maxLinesPerPage(g) < 1
  \/ g.margin <= 0
  \/ g.lineHeight <= 0
  \/ g.fontSize <= 0

\* the loop of lines 535-537 followed for MaxLoop iterations at most
PaginateStepBounded == Len(pages) < MaxLoop /\ PaginateStep

InitDegenerate ==
  /\ lines \in StringsUpTo(LineChoices, MaxLines)
  /\ geometry \in DegenerateGeometries
  /\ InitLocals
  /\ InitOther

NextDegenerate ==
  Wrap \/ PaginateStepBounded \/ PaginateEnd \/ BuildObjects \/ OffsetStep \/ Emit

SpecDegenerate == InitDegenerate /\ [][NextDegenerate]_vars

----------------------------------------------------------------------------
(* Claims about the numbering of the objects and about the cross-reference  *)
(* section, checked under Spec.                                             *)

\* the text stands somewhere in the string
contains(text, pat) == find(text, pat, 0) >= 0

declares(obj, k) == startsWithAt(obj, 0, toString(k) \o <<" ", "0", " ", "o", "b", "j", "\n">>)

\* C19: the identities are dense and fixed by the page count: the catalog is 1, the
\* page tree is 2, the page of 0-based index i is 3 + 2i and its content stream
\* 4 + 2i, the font is 3 + 2 * pageCount, which is also the object count N; the
\* k-th object emitted declares identity k and the k-th cross-reference entry after
\* the sentinel points at it.
C19_IdentitiesDense ==
  Returned =>
    LET pageCount == Len(pages)
        N         == 3 + 2 * pageCount
        kids      == ReadKids
    IN  /\ Len(objects) = N
        /\ ReadXrefCount = N + 1
        /\ \A k \in 1..N :
             /\ declares(objects[k], k)
             /\ startsWithAt(blob, ReadOffset(k), toString(k) \o <<" ", "0", " ", "o", "b", "j", "\n">>)
        /\ contains(objects[1], <<"/", "T", "y", "p", "e", " ", "/", "C", "a", "t", "a", "l", "o", "g", " ">>) /\ ReadRoot = 1
        /\ contains(objects[2], <<"/", "T", "y", "p", "e", " ", "/", "P", "a", "g", "e", "s", " ">>) /\ ReadPagesRef = 2
        /\ Len(kids) = pageCount
        /\ \A i \in 0..(pageCount - 1) :
             /\ contains(objects[3 + 2 * i], <<"/", "T", "y", "p", "e", " ", "/", "P", "a", "g", "e", " ">>)
             /\ kids[i + 1] = 3 + 2 * i
             /\ contains(objects[4 + 2 * i], <<"/", "L", "e", "n", "g", "t", "h", " ">>)
             /\ ReadContentsRef(3 + 2 * i) = 4 + 2 * i
             /\ ReadFontRef(3 + 2 * i) = 3 + 2 * pageCount
        /\ contains(objects[N], <<"/", "T", "y", "p", "e", " ", "/", "F", "o", "n", "t", " ">>)

\* a document of three pages has been emitted: nine objects, the font numbered 9
C19_Witness ==
  /\ Returned
  /\ Len(pages) = 3
  /\ declares(objects[9], 9)
  /\ contains(objects[9], <<"/", "T", "y", "p", "e", " ", "/", "F", "o", "n", "t", " ">>)

\* C20: the cross-reference section opens with the free sentinel entry, whose offset
\* is 0; the offsets of the identities 1..N strictly increase; and the offset of
\* identity 1 is the byte length of the header, which is positive.
C20_XrefOffsetsIncrease ==
  Returned =>
    /\ offsets[1] = 0
    /\ startsWithAt(blob, ReadXrefEntriesAt, <<"0", "0", "0", "0", "0", "0", "0", "0", "0", "0", " ", "6", "5", "5", "3", "5", " ", "f", " ", "\n">>)
    /\ ReadOffset(0) = 0
    /\ \A k \in 1..Len(objects) :
         /\ ReadOffset(k) = offsets[k + 1]
         /\ startsWithAt(blob, ReadXrefEntriesAt + 20 * k + 10, <<" ", "0", "0", "0", "0", "0", " ", "n", " ", "\n">>)
         /\ offsets[k] < offsets[k + 1]
    /\ ReadOffset(1) = Len(encode(header))
    /\ ReadOffset(1) > 0

\* a document of two pages or more has been emitted: six offsets or more follow the
\* sentinel
C20_Witness ==
  /\ Returned
  /\ Len(offsets) >= 8
  /\ ReadOffset(Len(objects)) > ReadOffset(1)

----------------------------------------------------------------------------
(* toCsv on its own: the encoding step of handleDownloadCsv over ReportRow  *)
(* sequences of every shape.                                                *)

\* longest ReportRow sequence handed to toCsv on its own
MaxCsvRows == 3

\* the row of the encoding example: Acme, Inc. | He said "hi"
ExampleRow == <<<<"A", "c", "m", "e", ",", " ", "I", "n", "c", ".">>, <<"H", "e", " ", "s", "a", "i", "d", " ", "\"", "h", "i", "\"">>>>

\* rows of 0, 1, 2 and 3 cells; cells that are empty or hold a comma, a double
\* quote or a newline
CsvRowChoices ==
  {<<>>, << <<>> >>, << <<"a">> >>, ExampleRow, << <<"a">>, <<>>, <<"b">> >>,
   << <<"\n">> >>, << <<"\"">> >>, << <<",">>, <<"\"", "\n", "\"">> >>}

\* the locals of buildPdf while buildPdf is not running
IdleLocals ==
  /\ lines = <<>>
  /\ geometry = ShippedGeometry
  /\ wrappedLines = <<>>
  /\ index = 0
  /\ pages = <<>>
  /\ objects = <<>>
  /\ offsets = <<>>
  /\ offset = 0
  /\ xrefStart = 0
  /\ blob = <<>>

\* line 494: const csv = toCsv(...)
ToCsvStep ==
  /\ pc = "toCsv"
  /\ csv' = toCsv(rows)
  /\ pc' = "downloadCsv"
  /\ UNCHANGED <<pdfVars, rows, download, thrown, appVars>>

InitCsv ==
  /\ rows \in StringsUpTo(CsvRowChoices, MaxCsvRows)
  /\ pc = "toCsv"
  /\ IdleLocals
  /\ csv = <<>>
  /\ download = NoDownload
  /\ InitApp

NextCsv == ToCsvStep

SpecCsv == InitCsv /\ [][NextCsv]_vars

(* A reader of the delimited text that inverts the quoting rule. *)

\* the double quotes that stand before index q
quotesBefore(text, q) == Cardinality({r \in 1..(q - 1) : text[r] = "\""})

\* the pieces of the text between the separators that stand outside quotes
splitOutside(text, sep) ==
  LET seps   == {q \in 1..Len(text) : text[q] = sep /\ quotesBefore(text, q) % 2 = 0}
      nth(k) == IF k = 0 THEN 0
                ELSE IF k > Cardinality(seps) THEN Len(text) + 1
                ELSE CHOOSE q \in seps : Cardinality({r \in seps : r < q}) = k - 1
  IN  [k \in 1..(Cardinality(seps) + 1) |-> SubSeq(text, nth(k - 1) + 1, nth(k) - 1)]

csvRecords(text) == splitOutside(text, "\n")

\* the fields of a record; the empty record holds no field
csvFields(record) == IF record = <<>> THEN <<>> ELSE splitOutside(record, ",")

\* the double quotes that stand immediately before index q
quoteRun(text, q) == Max({k \in 0..(q - 1) : \A j \in 1..k : text[q - j] = "\""})

\* a field without its enclosing quotes, every doubled quote read as one
unquote(field) ==
  LET inner  == SubSeq(field, 2, Len(field) - 1)
      kept   == {q \in 1..Len(inner) : ~(inner[q] = "\"" /\ quoteRun(inner, q) % 2 = 1)}
      nth(k) == CHOOSE q \in kept : Cardinality({r \in kept : r < q}) = k - 1
  IN  [k \in 1..Cardinality(kept) |-> inner[nth(k)]]

fromCsv(text) ==
  LET records == csvRecords(text)
  IN  [k \in 1..Len(records) |->
         LET fields == csvFields(records[k])
         IN  [j \in 1..Len(fields) |-> unquote(fields[j])]]

Encoded == pc = "downloadCsv"

quotesIn(text) == Cardinality({q \in 1..Len(text) : text[q] = "\""})

\* C11: toCsv writes each cell as one field in double quotes with every interior
\* double quote doubled, joins the fields of a row with commas and the rows with
\* newlines, adds no terminator, and pads no row: a row of k cells is a record of k
\* fields and an empty row is an empty record; the row of the example encodes to
\* "Acme, Inc.","He said ""hi""".
C11_CsvEncoding ==
  Encoded =>
    /\ rows = <<>> => csv = <<>>
    /\ rows /= <<>> =>
         LET records == csvRecords(csv)
         IN  /\ Len(records) = Len(rows)
             /\ \A k \in 1..Len(rows) :
                  LET fields == csvFields(records[k])
                  IN  /\ Len(fields) = Len(rows[k])
                      /\ rows[k] = <<>> => records[k] = <<>>
                      /\ \A j \in 1..Len(fields) :
                           /\ Len(fields[j]) = Len(rows[k][j]) + quotesIn(rows[k][j]) + 2
                           /\ fields[j][1] = "\""
                           /\ fields[j][Len(fields[j])] = "\""
                           /\ unquote(fields[j]) = rows[k][j]
    /\ rows = <<ExampleRow>> => csv = <<"\"", "A", "c", "m", "e", ",", " ", "I", "n", "c", ".", "\"", ",", "\"", "H", "e", " ", "s", "a", "i", "d", " ", "\"", "\"", "h", "i", "\"", "\"", "\"">>

\* rows of 1, 3 and 0 cells have been encoded, in that order
C11_Witness ==
  /\ Encoded
  /\ Len(rows) = 3
  /\ Len(rows[1]) = 1 /\ Len(rows[2]) = 3 /\ Len(rows[3]) = 0
  /\ csv = <<"\"", "a", "\"", "\n", "\"", "a", "\"", ",", "\"", "\"", ",", "\"", "b", "\"", "\n">>


\* ReportRow sequences of one row or none, and of one row followed by an empty row
CsvProbes ==
  {<<>>} \cup {<<row>> : row \in CsvRowChoices} \cup {<<row, <<>> >> : row \in CsvRowChoices}

\* C12 as stated: for every ReportRow sequence the reader recovers the rows and
\* cells that were encoded, and no other ReportRow sequence encodes to the same
\* string.
C12_RoundTrip ==
  Encoded =>
    /\ fromCsv(csv) = rows
    /\ \A other \in CsvProbes : toCsv(other) = csv => other = rows

\* C12: for every ReportRow sequence of one row or more the reader recovers the rows
\* and cells that were encoded, commas, double quotes and newlines included, and no
\* other sequence of one row or more encodes to the same string.
C12_RoundTripNonEmpty ==
  (Encoded /\ rows /= <<>>) =>
    /\ fromCsv(csv) = rows
    /\ \A other \in CsvProbes \ {<<>>} : toCsv(other) = csv => other = rows

\* three rows have been encoded and read back whose cells hold a comma, a double
\* quote and a newline
C12_Witness ==
  /\ Encoded
  /\ Len(rows) = 3
  /\ fromCsv(csv) = rows
  /\ \E k \in 1..3 : \E j \in 1..Len(rows[k]) : \E q \in 1..Len(rows[k][j]) : rows[k][j][q] = ","
  /\ \E k \in 1..3 : \E j \in 1..Len(rows[k]) : \E q \in 1..Len(rows[k][j]) : rows[k][j][q] = "\""
  /\ \E k \in 1..3 : \E j \in 1..Len(rows[k]) : \E q \in 1..Len(rows[k][j]) : rows[k][j][q] = "\n"

----------------------------------------------------------------------------
(* The handlers of App: sendPrompt and the two exports. *)

\* calls of sendPrompt with a prompt that is not blank followed in one behaviour
MaxPrompts == 1

UpperCase == <<"A", "B", "C", "D", "E", "F", "G", "H", "I", "J", "K", "L", "M", "N", "O", "P", "Q", "R", "S", "T", "U", "V", "W", "X", "Y", "Z">>
LowerCase == <<"a", "b", "c", "d", "e", "f", "g", "h", "i", "j", "k", "l", "m", "n", "o", "p", "q", "r", "s", "t", "u", "v", "w", "x", "y", "z">>

\* String.prototype.toLowerCase, for the letters A to Z
toLowerCase(text) ==
  [k \in 1..Len(text) |->
     IF \E j \in 1..26 : UpperCase[j] = text[k]
     THEN LowerCase[CHOOSE j \in 1..26 : UpperCase[j] = text[k]]
     ELSE text[k]]

\* the characters of the class \s that the model holds
RegexWhitespace == {" ", "\t", "\n", "\r"}

\* text.replace(/\s+/g, replacement): every maximal run of whitespace becomes replacement
replaceWhitespaceRuns(text, replacement) ==
  LET isSpace(q) == text[q] \in RegexWhitespace
      kept   == {q \in 1..Len(text) : ~isSpace(q) \/ q = 1 \/ ~isSpace(q - 1)}
      nth(k) == CHOOSE q \in kept : Cardinality({r \in kept : r < q}) = k - 1
  IN  concat([k \in 1..Cardinality(kept) |->
                IF isSpace(nth(k)) THEN replacement ELSE <<text[nth(k)]>>])

\* String.prototype.trim
trim(text) ==
  LET solid == {q \in 1..Len(text) : text[q] \notin RegexWhitespace}
  IN  IF solid = {} THEN <<>> ELSE SubSeq(text, Min(solid), Max(solid))

\* the stem with only the character U+0020 replaced
fileStem_spacesOnly(name) == toLowerCase(replaceAll(name, " ", <<"-">>))

\* activeSheet.name.replace(/\s+/g, "-").toLowerCase()
fileStem(name) == toLowerCase(replaceWhitespaceRuns(name, <<"-">>))

\* const suggestions
suggestions ==
  <<<<"B", "u", "i", "l", "d", " ", "a", " ", "c", "o", "m", "p", "e", "t", "i", "t", "o", "r", " ", "p", "r", "i", "c", "i", "n", "g", " ", "t", "a", "b", "l", "e", " ", "f", "o", "r", " ", "S", "a", "a", "S", " ", "C", "R", "M", " ", "t", "o", "o", "l", "s">>,
    <<"C", "r", "e", "a", "t", "e", " ", "a", " ", "w", "e", "e", "k", "l", "y", " ", "b", "u", "d", "g", "e", "t", " ", "t", "r", "a", "c", "k", "e", "r", " ", "w", "i", "t", "h", " ", "c", "h", "a", "r", "t">>,
    <<"S", "u", "m", "m", "a", "r", "i", "z", "e", " ", "Q", "1", " ", "p", "e", "r", "f", "o", "r", "m", "a", "n", "c", "e", " ", "b", "y", " ", "r", "e", "g", "i", "o", "n">>>>

(* The payloads parseAutomationPayload returns: objects with a spreadsheet  *)
(* of one row or more.  A property the reply leaves out is a field the      *)
(* record does not have.  Every chart holds its three properties.           *)

FullPayload ==
  [message |-> <<"m">>,
   spreadsheet |-> [name |-> <<"Q", "1", " ", "P", "l", "a", "n">>, rows |-> << <<<<"h">>, <<"i">>>>, <<<<"1">>, <<"2">>>> >>],
   chart |-> [title |-> <<"t">>, labels |-> <<<<"x">>, <<"y">>, <<"z">>>>, values |-> <<1>>],
   actions |-> <<<<"d", "o">>>>,
   report |-> [highlights |-> <<<<"h", "1">>, <<"h", "2">>>>,
               metrics |-> <<[label |-> <<"l">>, value |-> <<"v">>]>>],
   analysis |-> [overview |-> <<"o">>, keyPoints |-> <<<<"k">>>>, structuredPlan |-> <<<<"s">>>>,
                 opportunities |-> <<<<"p">>>>, risks |-> <<<<"r">>>>,
                 dataAttribution |-> <<[source |-> <<"s", "r", "c">>, notes |-> <<"n">>]>>,
                 confidence |-> <<"H", "i", "g", "h">>]]

\* a reply that holds the spreadsheet and an empty message and nothing else
BarePayload ==
  [message |-> <<>>,
   spreadsheet |-> [name |-> <<"A", " ", " ", "b", "\t", "C">>, rows |-> << <<<<"x">>>> >>]]

\* every list and every string empty, more values than labels, a name that opens
\* with a space
EmptyListsPayload ==
  [message |-> <<"m">>,
   spreadsheet |-> [name |-> <<" ", "S">>, rows |-> << <<<<"a">>, <<"b">>>> >>],
   chart |-> [title |-> <<>>, labels |-> <<>>, values |-> <<5>>],
   actions |-> <<>>,
   report |-> [highlights |-> <<>>, metrics |-> <<>>],
   analysis |-> [overview |-> <<>>, keyPoints |-> <<>>, structuredPlan |-> <<>>,
                 opportunities |-> <<>>, risks |-> <<>>, dataAttribution |-> <<>>,
                 confidence |-> <<>>]]

\* a report and an analysis that hold some of their properties, a sheet with an
\* empty row, more labels than values
PartialPayload ==
  [message |-> <<"s", "u", "m">>,
   spreadsheet |-> [name |-> <<"s", " ", "2">>, rows |-> << <<<<"a">>, <<"(", "b", ")">>>>, <<>> >>],
   chart |-> [title |-> <<"c">>, labels |-> <<<<"x">>, <<"y">>>>, values |-> <<1>>],
   report |-> [metrics |-> <<[label |-> <<"l">>, value |-> <<"v">>]>>],
   analysis |-> [risks |-> <<<<"r">>>>, confidence |-> <<"L", "o", "w">>]]

Payloads == {FullPayload, BarePayload, EmptyListsPayload, PartialPayload}

\* the latest time Date.now() returns
MaxNow == 1

\* the values Date.now() returns
Nows == 1..MaxNow

\* payload.report?.[field] ?? []
reportField(payload, field) ==
  IF "report" \in DOMAIN payload /\ field \in DOMAIN payload.report
  THEN payload.report[field]
  ELSE <<>>

\* payload.analysis?.[field] ?? fallback
payloadAnalysisField(payload, field, fallback) ==
  IF "analysis" \in DOMAIN payload /\ field \in DOMAIN payload.analysis
  THEN payload.analysis[field]
  ELSE fallback

\* payload.actions?.length ? payload.actions : aiActions
nextAiActions(payload, previous) ==
  IF "actions" \in DOMAIN payload /\ Len(payload.actions) > 0 THEN payload.actions ELSE previous

\* the chart of the payload stored whether the payload holds one or not
nextChartData_noFallback(payload, previous) ==
  IF "chart" \in DOMAIN payload THEN payload.chart ELSE Undefined

\* payload.chart ?? chartData
nextChartData(payload, previous) ==
  IF "chart" \in DOMAIN payload THEN payload.chart ELSE previous

\* const newSheet
newSheet(payload, now) ==
  [id |-> replaceWhitespaceRuns(toLowerCase(payload.spreadsheet.name), <<"-">>)
          \o <<"-">> \o toString(now),
   name |-> payload.spreadsheet.name,
   lastUpdated |-> <<"J", "u", "s", "t", " ", "n", "o", "w">>,
   rows |-> payload.spreadsheet.rows]

userMessages == Cardinality({k \in 1..Len(messages) : messages[k].role = "user"})

\* no handler is running
Idle == pc = "idle"

(* download holds the file a handler has offered to the browser while no    *)
(* later handler has run: downloadBlob revokes its URL before it returns,   *)
(* so the file is no state of the application.                              *)

\* onChangeText={setApiKey}
SetApiKey ==
  /\ Idle
  /\ apiKey' = <<"s", "k">>
  /\ download' = NoDownload
  /\ UNCHANGED <<pc, pdfVars, rows, csv, thrown>>
  /\ UNCHANGED <<messages, input, sheets, isSending, apiStatus, activeSheetId, reportSummary,
                 reportHighlights, reportMetrics, analysisLayer, aiActions, chartData,
                 scraperStatus, pending>>

\* onChangeText={setInput}, editable={!isSending}
SetInput ==
  /\ Idle
  /\ ~isSending
  /\ \E text \in {<<" ">>, <<" ", "p", "l", "a", "n", " ">>} : input' = text
  /\ download' = NoDownload
  /\ UNCHANGED <<pc, pdfVars, rows, csv, thrown>>
  /\ UNCHANGED <<messages, sheets, apiKey, isSending, apiStatus, activeSheetId, reportSummary,
                 reportHighlights, reportMetrics, analysisLayer, aiActions, chartData,
                 scraperStatus, pending>>

\* sendPrompt up to its first await (lines 678-716)
sendPrompt(prompt) ==
  IF trim(prompt) = <<>>
  THEN UNCHANGED vars
  ELSE /\ userMessages < MaxPrompts
       /\ input' = <<>>
       /\ scraperStatus' = Undefined
       /\ analysisLayer' = emptyAnalysisLayer
       /\ IF apiKey = <<>>
          THEN /\ apiStatus' = [tone |-> "error",
                                message |-> <<"A", "d", "d", " ", "a", "n", " ", "A", "P", "I", " ", "k", "e", "y", " ", "t", "o", " ", "s", "e", "n", "d", " ", "m", "e", "s", "s", "a", "g", "e", "s", " ", "t", "o", " ", "t", "h", "e", " ", "s", "e", "l", "e", "c", "t", "e", "d", " ", "p", "r", "o", "v", "i", "d", "e", "r", ".">>]
               /\ messages' = messages \o
                    <<[role |-> "user", content |-> prompt],
                      [role |-> "assistant",
                       content |-> <<"A", "d", "d", " ", "a", "n", " ", "A", "P", "I", " ", "k", "e", "y", " ", "s", "o", " ", "I", " ", "c", "a", "n", " ", "c", "o", "n", "n", "e", "c", "t", " ", "t", "o", " ", "y", "o", "u", "r", " ", "s", "e", "l", "e", "c", "t", "e", "d", " ", "A", "I", " ", "p", "r", "o", "v", "i", "d", "e", "r", ".">>]>>
               /\ UNCHANGED <<isSending, pending>>
          ELSE /\ apiStatus' = Undefined
               /\ messages' = Append(messages, [role |-> "user", content |-> prompt])
               /\ isSending' = TRUE
               /\ pending' = Append(pending, [aiActions |-> aiActions, chartData |-> chartData])
       /\ download' = NoDownload
       /\ UNCHANGED <<pc, pdfVars, rows, csv, thrown>>
       /\ UNCHANGED <<sheets, apiKey, activeSheetId, reportSummary, reportHighlights,
                      reportMetrics, aiActions, chartData>>

\* onPress={handleSend}, disabled={isSending}
handleSend ==
  /\ Idle
  /\ ~isSending
  /\ sendPrompt(trim(input))

\* the suggestion chips, shown while no message exists
handleStartWithPrompt ==
  /\ Idle
  /\ messages = <<>>
  /\ \E k \in 1..Len(suggestions) : sendPrompt(suggestions[k])

\* what fetchScrapedContext leaves in scraperStatus: nothing (no url in the prompt), or
\* the message of its last line; its two failure messages are left out
ScraperStatuses ==
  {Undefined, [text |-> <<"S", "c", "r", "a", "p", "e", "r", " ", "s", "o", "u", "r", "c", "e", "s", " ", "l", "o", "a", "d", "e", "d", ".">>]}

\* sendPrompt after the provider has replied with a payload (lines 717-751, 761-764, 782-784)
sendPromptPayload ==
  /\ Idle
  /\ pending /= <<>>
  /\ \E payload \in Payloads, now \in Nows, status \in ScraperStatuses :
       LET closure == Head(pending)
       IN  /\ sheets' = <<newSheet(payload, now)>> \o sheets
           /\ activeSheetId' = newSheet(payload, now).id
           /\ reportSummary' = payload.message
           /\ reportHighlights' = reportField(payload, "highlights")
           /\ reportMetrics' = reportField(payload, "metrics")
           /\ analysisLayer' =
                [overview |-> payloadAnalysisField(payload, "overview", <<>>),
                 keyPoints |-> payloadAnalysisField(payload, "keyPoints", <<>>),
                 structuredPlan |-> payloadAnalysisField(payload, "structuredPlan", <<>>),
                 opportunities |-> payloadAnalysisField(payload, "opportunities", <<>>),
                 risks |-> payloadAnalysisField(payload, "risks", <<>>),
                 dataAttribution |-> payloadAnalysisField(payload, "dataAttribution", <<>>),
                 confidence |-> payloadAnalysisField(payload, "confidence", <<>>)]
           /\ aiActions' = nextAiActions(payload, closure.aiActions)
           /\ chartData' = nextChartData(payload, closure.chartData)
           /\ messages' = Append(messages, [role |-> "assistant", content |-> payload.message])
           /\ scraperStatus' = status
  /\ apiStatus' = [tone |-> "success", message |-> <<"C", "o", "n", "n", "e", "c", "t", "e", "d", " ", "t", "o", " ", "O", "p", "e", "n", "A", "I", ".">>]
  /\ isSending' = FALSE
  /\ pending' = Tail(pending)
  /\ download' = NoDownload
  /\ UNCHANGED <<pc, pdfVars, rows, csv, thrown>>
  /\ UNCHANGED <<input, apiKey>>

\* sendPrompt after the provider has replied with a text that holds no payload
\* (lines 717-721, 752-764, 782-784)
sendPromptReply ==
  /\ Idle
  /\ pending /= <<>>
  /\ \E status \in ScraperStatuses : scraperStatus' = status
  /\ messages' = Append(messages, [role |-> "assistant", content |-> <<"N", "o", " ", "r", "e", "s", "p", "o", "n", "s", "e", " ", "r", "e", "c", "e", "i", "v", "e", "d", ".">>])
  /\ apiStatus' = [tone |-> "success", message |-> <<"C", "o", "n", "n", "e", "c", "t", "e", "d", " ", "t", "o", " ", "O", "p", "e", "n", "A", "I", ".">>]
  /\ isSending' = FALSE
  /\ pending' = Tail(pending)
  /\ download' = NoDownload
  /\ UNCHANGED <<pc, pdfVars, rows, csv, thrown>>
  /\ UNCHANGED <<input, sheets, apiKey, activeSheetId, reportSummary, reportHighlights,
                 reportMetrics, analysisLayer, aiActions, chartData>>

\* the failure path without the finally block: isSending stays set
sendPromptFailure_noFinally ==
  /\ Idle
  /\ pending /= <<>>
  /\ \E message \in {<<"O", "p", "e", "n", "A", "I", " ", "r", "e", "q", "u", "e", "s", "t", " ", "f", "a", "i", "l", "e", "d", " ", "(", "5", "0", "0", ")">>, <<"U", "n", "a", "b", "l", "e", " ", "t", "o", " ", "r", "e", "a", "c", "h", " ", "t", "h", "e", " ", "A", "I", " ", "p", "r", "o", "v", "i", "d", "e", "r", ".">>} :
       apiStatus' = [tone |-> "error", message |-> message]
  /\ messages' = Append(messages,
       [role |-> "assistant",
        content |-> <<"I", " ", "c", "o", "u", "l", "d", "n", "U+2019", "t", " ", "r", "e", "a", "c", "h", " ", "t", "h", "e", " ", "s", "e", "l", "e", "c", "t", "e", "d", " ", "p", "r", "o", "v", "i", "d", "e", "r", ".", " ", "D", "o", "u", "b", "l", "e", "-", "c", "h", "e", "c", "k", " ", "t", "h", "e", " ", "A", "P", "I", " ", "k", "e", "y", ",", " ", "m", "o", "d", "e", "l", " ", "a", "c", "c", "e", "s", "s", ",", " ", "a", "n", "d", " ", "C", "O", "R", "S", " ", "s", "e", "t", "t", "i", "n", "g", "s", ".">>])
  /\ scraperStatus' = Undefined
  /\ UNCHANGED isSending
  /\ pending' = Tail(pending)
  /\ download' = NoDownload
  /\ UNCHANGED <<pc, pdfVars, rows, csv, thrown>>
  /\ UNCHANGED <<input, sheets, apiKey, activeSheetId, reportSummary, reportHighlights,
                 reportMetrics, analysisLayer, aiActions, chartData>>

\* sendPrompt after the scraper or the provider has failed (lines 765-784)
sendPromptFailure ==
  /\ Idle
  /\ pending /= <<>>
  /\ \E message \in {<<"O", "p", "e", "n", "A", "I", " ", "r", "e", "q", "u", "e", "s", "t", " ", "f", "a", "i", "l", "e", "d", " ", "(", "5", "0", "0", ")">>, <<"U", "n", "a", "b", "l", "e", " ", "t", "o", " ", "r", "e", "a", "c", "h", " ", "t", "h", "e", " ", "A", "I", " ", "p", "r", "o", "v", "i", "d", "e", "r", ".">>} :
       apiStatus' = [tone |-> "error", message |-> message]
  /\ messages' = Append(messages,
       [role |-> "assistant",
        content |-> <<"I", " ", "c", "o", "u", "l", "d", "n", "U+2019", "t", " ", "r", "e", "a", "c", "h", " ", "t", "h", "e", " ", "s", "e", "l", "e", "c", "t", "e", "d", " ", "p", "r", "o", "v", "i", "d", "e", "r", ".", " ", "D", "o", "u", "b", "l", "e", "-", "c", "h", "e", "c", "k", " ", "t", "h", "e", " ", "A", "P", "I", " ", "k", "e", "y", ",", " ", "m", "o", "d", "e", "l", " ", "a", "c", "c", "e", "s", "s", ",", " ", "a", "n", "d", " ", "C", "O", "R", "S", " ", "s", "e", "t", "t", "i", "n", "g", "s", ".">>])
  /\ scraperStatus' = Undefined
  /\ isSending' = FALSE
  /\ pending' = Tail(pending)
  /\ download' = NoDownload
  /\ UNCHANGED <<pc, pdfVars, rows, csv, thrown>>
  /\ UNCHANGED <<input, sheets, apiKey, activeSheetId, reportSummary, reportHighlights,
                 reportMetrics, analysisLayer, aiActions, chartData>>

\* a flattener reads a property of a value that is undefined: chartData.title,
\* chartData.labels.forEach, chartData.values[index]
flattenThrows ==
  \/ chartData = Undefined
  \/ "title" \notin DOMAIN chartData
  \/ "labels" \notin DOMAIN chartData
  \/ (Len(chartData.labels) > 0 /\ "values" \notin DOMAIN chartData)

\* buildReportCsvRows pushing its rows onto the row grid of the active sheet
handleDownloadCsv_sharesRows ==
  /\ Idle
  /\ ~flattenThrows
  /\ rows' = buildReportCsvRows
  /\ sheets' = [k \in 1..Len(sheets) |->
                  IF k = activeSheetIndex + 1
                  THEN [sheets[k] EXCEPT !.rows = sheets[k].rows \o buildReportCsvRows]
                  ELSE sheets[k]]
  /\ pc' = "toCsv"
  /\ download' = NoDownload
  /\ UNCHANGED <<pdfVars, csv, thrown>>
  /\ UNCHANGED <<messages, input, apiKey, isSending, apiStatus, activeSheetId, reportSummary,
                 reportHighlights, reportMetrics, analysisLayer, aiActions, chartData,
                 scraperStatus, pending>>

\* handleDownloadCsv: buildReportCsvRows() (line 494)
handleDownloadCsv ==
  /\ Idle
  /\ IF flattenThrows
     THEN /\ thrown' = TRUE
          /\ UNCHANGED <<pc, rows>>
     ELSE /\ rows' = buildReportCsvRows
          /\ pc' = "toCsv"
          /\ UNCHANGED thrown
  /\ download' = NoDownload
  /\ UNCHANGED <<pdfVars, csv, appVars>>

\* handleDownloadCsv: downloadBlob(csv, ...) (line 495)
downloadCsv ==
  /\ pc = "downloadCsv"
  /\ download' = downloadBlob(encode(csv), fileStem(activeSheet.name) \o <<".", "c", "s", "v">>, <<"t", "e", "x", "t", "/", "c", "s", "v">>)
  /\ rows' = <<>>
  /\ csv' = <<>>
  /\ pc' = "idle"
  /\ UNCHANGED <<pdfVars, thrown, appVars>>

\* handleDownloadPdf: buildPdf(buildReportLines()), up to the call (line 590)
handleDownloadPdf ==
  /\ Idle
  /\ IF flattenThrows
     THEN /\ thrown' = TRUE
          /\ UNCHANGED <<pc, lines>>
     ELSE /\ lines' = buildReportLines
          /\ pc' = "start"
          /\ UNCHANGED thrown
  /\ UNCHANGED <<geometry, wrappedLines, index, pages, objects, offsets, offset, xrefStart, blob>>
  /\ download' = NoDownload
  /\ UNCHANGED <<rows, csv, appVars>>

\* handleDownloadPdf: downloadBlob(pdf, ...) (line 591); the locals of buildPdf are gone
downloadPdf ==
  /\ pc = "done"
  /\ download' = downloadBlob(blob, fileStem(activeSheet.name) \o <<".", "p", "d", "f">>, <<"a", "p", "p", "l", "i", "c", "a", "t", "i", "o", "n", "/", "p", "d", "f">>)
  /\ lines' = <<>>
  /\ wrappedLines' = <<>>
  /\ index' = 0
  /\ pages' = <<>>
  /\ objects' = <<>>
  /\ offsets' = <<>>
  /\ offset' = 0
  /\ xrefStart' = 0
  /\ blob' = <<>>
  /\ pc' = "idle"
  /\ UNCHANGED <<geometry, rows, csv, thrown, appVars>>

InitReport ==
  /\ pc = "idle"
  /\ IdleLocals
  /\ InitOther

NextReport ==
  \/ SetApiKey \/ SetInput \/ handleSend \/ handleStartWithPrompt
  \/ sendPromptPayload \/ sendPromptReply \/ sendPromptFailure
  \/ handleDownloadCsv \/ ToCsvStep \/ downloadCsv
  \/ handleDownloadPdf \/ Wrap \/ PaginateStep \/ PaginateEnd \/ BuildObjects \/ OffsetStep \/ Emit
  \/ downloadPdf

SpecReport == InitReport /\ [][NextReport]_vars

----------------------------------------------------------------------------
(* Claims about the flatteners, checked under SpecReport. *)

\* the names of the sections, in the order they are emitted
sectionNames(sections) == [k \in 1..Len(sections) |-> sections[k].section]

\* the documented order of the sections; the last blank goes with the actions
DocumentedOrder ==
  <<"summary", "highlights", "metrics", "blank", "overview", "keyPoints", "structuredPlan",
    "opportunities", "risks", "attribution", "confidence", "blank", "sheet", "blank",
    "sheetRows", "blank", "chartTitle", "chartRows", "blank", "actions">>

\* the documented order without the sections that the output does not hold
documentedOrderOf(names) ==
  LET present == {names[k] : k \in 1..Len(names)}
      kept    == {q \in 1..Len(DocumentedOrder) :
                    IF DocumentedOrder[q] = "blank"
                    THEN q < Len(DocumentedOrder) - 1 \/ "actions" \in present
                    ELSE DocumentedOrder[q] \in present}
      nth(k)  == CHOOSE q \in kept : Cardinality({r \in kept : r < q}) = k - 1
  IN  [k \in 1..Cardinality(kept) |-> DocumentedOrder[nth(k)]]

\* C13: buildReportLines and buildReportCsvRows both emit their sections in the
\* documented order: summary, highlights, metrics, blank, analysis overview, key
\* points, structured plan, opportunities, risks, attribution, confidence, blank,
\* spreadsheet name and stamp, blank, spreadsheet rows, blank, chart title, chart
\* rows and, when actions exist, a blank and the actions.
C13_SectionsInDocumentedOrder ==
  ~flattenThrows =>
    /\ sectionNames(rowSections) = documentedOrderOf(sectionNames(rowSections))
    /\ sectionNames(lineSections) = documentedOrderOf(sectionNames(lineSections))

\* the sections of the output that bear the name
named(sections, name) == {k \in 1..Len(sections) : sections[k].section = name}

\* the section is emitted by both flatteners, or by neither
emitted(name) ==
  /\ named(lineSections, name) /= {}
  /\ named(rowSections, name) /= {}

skipped(name) ==
  /\ named(lineSections, name) = {}
  /\ named(rowSections, name) = {}

\* C14 as stated: a section whose backing list or string is empty is skipped by both
\* flatteners, for each of summary, highlights, metrics, analysis overview, key
\* points, structured plan, opportunities, risks, attribution, confidence, chart and
\* actions.
C14_EmptySectionsSkipped ==
  ~flattenThrows =>
    /\ reportSummary = <<>> => skipped("summary")
    /\ reportHighlights = <<>> => skipped("highlights")
    /\ reportMetrics = <<>> => skipped("metrics")
    /\ analysisLayer.overview = <<>> => skipped("overview")
    /\ analysisKeyPoints = <<>> => skipped("keyPoints")
    /\ analysisStructuredPlan = <<>> => skipped("structuredPlan")
    /\ analysisOpportunities = <<>> => skipped("opportunities")
    /\ analysisRisks = <<>> => skipped("risks")
    /\ analysisDataAttribution = <<>> => skipped("attribution")
    /\ analysisConfidence = <<>> => skipped("confidence")
    /\ (chartData.title = <<>> /\ chartData.labels = <<>>) =>
         (skipped("chartTitle") /\ skipped("chartRows"))
    /\ aiActions = <<>> => skipped("actions")

\* the section opens with the heading in both outputs
headed(name, heading) ==
  /\ \A k \in named(lineSections, name) : lineSections[k].lines[1] = heading
  /\ \A k \in named(rowSections, name) : rowSections[k].rows[1] = <<heading>>

\* C14: both flatteners skip each of highlights, metrics, key points, structured plan,
\* opportunities, risks, attribution, confidence and actions when its backing list or
\* string is empty, and emit it under its heading otherwise; the summary and the
\* analysis overview are always emitted, with the default text when the backing
\* string is empty, and the chart title is always emitted.
C14_EmptyListSectionsSkipped ==
  ~flattenThrows =>
    /\ IF reportHighlights = <<>> THEN skipped("highlights")
       ELSE emitted("highlights") /\ headed("highlights", <<"H", "i", "g", "h", "l", "i", "g", "h", "t", "s">>)
    /\ IF reportMetrics = <<>> THEN skipped("metrics")
       ELSE emitted("metrics") /\ headed("metrics", <<"M", "e", "t", "r", "i", "c", "s">>)
    /\ IF analysisKeyPoints = <<>> THEN skipped("keyPoints")
       ELSE emitted("keyPoints") /\ headed("keyPoints", <<"K", "e", "y", " ", "p", "o", "i", "n", "t", "s">>)
    /\ IF analysisStructuredPlan = <<>> THEN skipped("structuredPlan")
       ELSE emitted("structuredPlan") /\ headed("structuredPlan", <<"S", "t", "r", "u", "c", "t", "u", "r", "e", "d", " ", "p", "l", "a", "n">>)
    /\ IF analysisOpportunities = <<>> THEN skipped("opportunities")
       ELSE emitted("opportunities") /\ headed("opportunities", <<"O", "p", "p", "o", "r", "t", "u", "n", "i", "t", "i", "e", "s">>)
    /\ IF analysisRisks = <<>> THEN skipped("risks")
       ELSE emitted("risks") /\ headed("risks", <<"R", "i", "s", "k", "s">>)
    /\ IF analysisDataAttribution = <<>> THEN skipped("attribution")
       ELSE emitted("attribution") /\ headed("attribution", <<"D", "a", "t", "a", " ", "a", "t", "t", "r", "i", "b", "u", "t", "i", "o", "n">>)
    /\ IF analysisConfidence = <<>> THEN skipped("confidence") ELSE emitted("confidence")
    /\ IF aiActions = <<>> THEN skipped("actions")
       ELSE emitted("actions") /\ headed("actions", <<"A", "I", " ", "a", "c", "t", "i", "o", "n", "s">>)
    /\ emitted("summary")
    /\ lineSections[1].lines =
         <<<<"R", "e", "p", "o", "r", "t", " ", "s", "u", "m", "m", "a", "r", "y">>, IF reportSummary = <<>> THEN defaultReportSummary ELSE reportSummary>>
    /\ rowSections[1].rows =
         << <<<<"R", "e", "p", "o", "r", "t", " ", "s", "u", "m", "m", "a", "r", "y">>, IF reportSummary = <<>> THEN defaultReportSummary ELSE reportSummary>> >>
    /\ emitted("overview")
    /\ \A k \in named(lineSections, "overview") :
         lineSections[k].lines =
           <<<<"S", "t", "r", "a", "t", "e", "g", "i", "c", " ", "a", "n", "a", "l", "y", "s", "i", "s", " ", "l", "a", "y", "e", "r">>,
             IF analysisLayer.overview = <<>> THEN defaultAnalysisOverview ELSE analysisLayer.overview>>
    /\ emitted("chartTitle")
    /\ Len(buildReportLines) >= 8
    /\ Len(buildReportCsvRows) >= 9

\* buildReportLines has been called for a report whose highlights, key points and
\* actions are empty while its metrics and risks are not
C14_Witness ==
  /\ pc = "start"
  /\ lines = buildReportLines
  /\ reportSummary /= <<>>
  /\ reportHighlights = <<>> /\ reportMetrics /= <<>>
  /\ analysisKeyPoints = <<>> /\ analysisRisks /= <<>>
  /\ skipped("highlights") /\ emitted("metrics")

----------------------------------------------------------------------------
(* Claims about the exports, checked under SpecReport. *)

\* a step of handleDownloadCsv or of handleDownloadPdf
ExportStep == pc /= "idle" \/ pc' /= "idle"

\* C16: no step of an export changes the application state: the sheets with their
\* row grids, the active sheet id, the messages, the summary, highlights, metrics,
\* analysis layer, chart data and actions are after the step what they were before.
C16_ExportLeavesStateUnchanged == [][ExportStep => UNCHANGED appVars]_vars

\* the document export has run to its end for a report built from a payload: its
\* file has been offered
C16_Witness ==
  /\ Idle
  /\ download /= NoDownload
  /\ download.type = <<"a", "p", "p", "l", "i", "c", "a", "t", "i", "o", "n", "/", "p", "d", "f">>
  /\ Len(sheets) = 3
  /\ reportHighlights /= <<>>
  /\ messages /= <<>>

\* C17: no export throws and no reachable report makes a flattener throw, whatever
\* the payload left out or left empty; an export that has begun is at a step of
\* toCsv or of buildPdf that can be taken, and the file it offers holds bytes.
C17_ExportsDoNotThrow ==
  /\ ~thrown
  /\ ~flattenThrows
  /\ pc \in {"idle", "toCsv", "downloadCsv", "start", "paginate", "objects", "offsets", "done"}
  /\ pc \in {"paginate", "objects", "offsets", "done"} =>
       (maxLinesPerPage(geometry) >= 1 /\ Len(wrappedLines) >= 1)
  /\ pc = "downloadCsv" => Len(csv) > 0
  /\ download /= NoDownload => Len(download.bytes) > 0

\* the document has been exported for a report whose payload held no highlights, a
\* partial analysis block and a chart with fewer values than labels
C17_Witness ==
  /\ Idle
  /\ ~thrown
  /\ download.type = <<"a", "p", "p", "l", "i", "c", "a", "t", "i", "o", "n", "/", "p", "d", "f">>
  /\ Len(download.bytes) > 0
  /\ reportHighlights = <<>>
  /\ analysisKeyPoints = <<>>
  /\ analysisLayer.overview = <<>>
  /\ Len(chartData.values) < Len(chartData.labels)

\* the name in lower case with every whitespace character replaced by one hyphen
stemCharByChar(name) ==
  [k \in 1..Len(name) |-> IF name[k] \in RegexWhitespace THEN "-" ELSE toLowerCase(<<name[k]>>)[1]]

\* the name in lower case with every run of whitespace replaced by one hyphen
stemRunByRun(name) ==
  LET words == Tokens(name)
      lead  == IF name /= <<>> /\ name[1] \in Whitespace THEN <<"-">> ELSE <<>>
      trail == IF words /= <<>> /\ name[Len(name)] \in Whitespace THEN <<"-">> ELSE <<>>
  IN  lead \o join([k \in 1..Len(words) |-> toLowerCase(words[k])], <<"-">>) \o trail

extensionOf(type) == IF type = <<"t", "e", "x", "t", "/", "c", "s", "v">> THEN <<".", "c", "s", "v">> ELSE <<".", "p", "d", "f">>

cleanName(filename) ==
  \A k \in 1..Len(filename) :
    /\ filename[k] \notin RegexWhitespace
    /\ \A j \in 1..26 : filename[k] /= UpperCase[j]

\* C18 as stated: the file name offered is the name of the active sheet in lower case
\* with its spaces replaced by hyphens, one for one, followed by .csv or .pdf, and
\* holds no whitespace and no upper-case letter.
C18_FilenameSpacesToHyphens ==
  download /= NoDownload =>
    /\ download.type \in {<<"t", "e", "x", "t", "/", "c", "s", "v">>, <<"a", "p", "p", "l", "i", "c", "a", "t", "i", "o", "n", "/", "p", "d", "f">>}
    /\ download.filename = stemCharByChar(activeSheet.name) \o extensionOf(download.type)
    /\ cleanName(download.filename)

\* C18: the file name offered is the name of the active sheet in lower case with every
\* run of whitespace replaced by a single hyphen, followed by .csv for the delimited
\* table and .pdf for the document; it holds no whitespace and no upper-case letter.
C18_FilenameRunsToHyphen ==
  download /= NoDownload =>
    /\ download.type \in {<<"t", "e", "x", "t", "/", "c", "s", "v">>, <<"a", "p", "p", "l", "i", "c", "a", "t", "i", "o", "n", "/", "p", "d", "f">>}
    /\ download.filename = stemRunByRun(activeSheet.name) \o extensionOf(download.type)
    /\ cleanName(download.filename)

\* the document of the sheet named "A  b<tab>C" has been offered as a-b-c.pdf
C18_Witness ==
  /\ download.filename = <<"a", "-", "b", "-", "c", ".", "p", "d", "f">>
  /\ activeSheet.name = <<"A", " ", " ", "b", "\t", "C">>


----------------------------------------------------------------------------
(* Claims about the page tree and the content streams, checked under Spec. *)

\* C21: the child list of the page tree holds the page identities 3 + 2i, i = 0 ..
\* pageCount - 1, each exactly once and in page order; it holds no content stream
\* identity and not the font identity; and /Count is pageCount.
C21_PageTreeKids ==
  Returned =>
    LET kids      == ReadKids
        pageCount == Len(pages)
    IN  /\ kids = [k \in 1..pageCount |-> 3 + 2 * (k - 1)]
        /\ \A i \in 0..(pageCount - 1) :
             Cardinality({k \in 1..Len(kids) : kids[k] = 3 + 2 * i}) = 1
        /\ \A k \in 1..Len(kids) :
             /\ kids[k] # 3 + 2 * pageCount
             /\ \A i \in 0..(pageCount - 1) : kids[k] # 4 + 2 * i
             /\ contains(objects[kids[k]], <<"/", "T", "y", "p", "e", " ", "/", "P", "a", "g", "e", " ">>)
             /\ ~contains(objects[kids[k]], <<"s", "t", "r", "e", "a", "m">>)
        /\ refsIn(ReadDictionary(ReadPagesRef)) = {3 + 2 * i : i \in 0..(pageCount - 1)}
        /\ ReadCount = pageCount

\* a document of four pages has been emitted: its page tree lists 3, 5, 7 and 9
C21_Witness ==
  /\ Returned
  /\ ReadKids = <<3, 5, 7, 9>>
  /\ ReadCount = 4


----------------------------------------------------------------------------
(* Claims about the packing of wrapText, checked under SpecWrap. *)

\* the sub-lines flushed and the current sub-line after the first n words were scanned
scanned(words, n, maxLength) ==
  wrapWords([lines |-> <<>>, currentLine |-> <<>>], SubSeq(words, 1, n), maxLength)

\* C22: wrapText packs greedily.  Scanning the words of text.split(" ") in order,
\* a word met with a non-empty current sub-line is appended to it, after one
\* space, exactly when len(current) + 1 + len(word) <= W, and otherwise the
\* current sub-line is flushed and the word starts the next one; a word met with
\* no current sub-line starts one and flushes nothing.  The sub-lines returned
\* are the flushed ones and the last current one, and the first word of every
\* sub-line after the first would not have fit on the sub-line before it.
C22_GreedyPacking ==
  (Wrapped /\ lines[1] # <<>>) =>
    LET W     == geometry.maxLineLength
        words == split(lines[1], " ")
        last  == scanned(words, Len(words), W)
    IN  /\ \A n \in 0..(Len(words) - 1) :
             LET before == scanned(words, n, W)
                 after  == scanned(words, n + 1, W)
                 word   == words[n + 1]
             IN  IF before.currentLine = <<>>
                 THEN after = [lines |-> before.lines, currentLine |-> word]
                 ELSE IF Len(before.currentLine) + 1 + Len(word) <= W
                 THEN after = [lines       |-> before.lines,
                               currentLine |-> before.currentLine \o <<" ">> \o word]
                 ELSE after = [lines       |-> Append(before.lines, before.currentLine),
                               currentLine |-> word]
        /\ wrappedLines = IF last.currentLine = <<>> THEN last.lines
                          ELSE Append(last.lines, last.currentLine)
        /\ \A i \in 2..Len(wrappedLines) :
             LET first == split(wrappedLines[i], " ")[1]
             IN  /\ first # <<>>
                 /\ Len(wrappedLines[i - 1]) + 1 + Len(first) > W

\* a text has been wrapped whose second word was appended to the first sub-line and
\* whose third word did not fit on it
C22_Witness ==
  /\ Wrapped
  /\ Len(wrappedLines) >= 2
  /\ Len(split(wrappedLines[1], " ")) >= 2
  /\ Len(wrappedLines[1]) + 1 + Len(split(wrappedLines[2], " ")[1]) > geometry.maxLineLength
  /\ Len(wrappedLines[1]) <= geometry.maxLineLength


\* the instructions of the content stream of the page with 1-based index k, one per
\* line of the stream data
ReadInstructions(k) == split(ReadStream(ReadContentsRef(ReadKids[k])), "\n")

\* the instruction reads BT /F1 size Tf x y Td (text) Tj ET
IsShowText(instr, size, x, y, text) ==
  LET sizeEnd == digitsEnd(instr, 7)
      xEnd    == digitsEnd(instr, sizeEnd + 4)
      yEnd    == digitsEnd(instr, xEnd + 1)
  IN  /\ startsWithAt(instr, 0, <<"B", "T", " ", "/", "F", "1", " ">>)
      /\ parseNat(instr, 7) = size
      /\ startsWithAt(instr, sizeEnd, <<" ", "T", "f", " ">>)
      /\ parseNat(instr, sizeEnd + 4) = x
      /\ startsWithAt(instr, xEnd, <<" ">>)
      /\ parseNat(instr, xEnd + 1) = y
      /\ startsWithAt(instr, yEnd, <<" ", "T", "d", " ", "(">>)
      /\ startsWithAt(instr, Len(instr) - 7, <<")", " ", "T", "j", " ", "E", "T">>)
      /\ ReadOperands(instr) = <<text>>

\* C23: the content stream of every page holds exactly one positioning and
\* show-text instruction per line of the page, in line order; the instruction of
\* the line with 0-based index j within its page uses the configured font size and
\* the vertical position pageHeight - margin - j * lineHeight, j restarting at 0
\* on every page.
C23_OneInstructionPerLine ==
  Returned =>
    \A k \in 1..Len(pages) :
      LET instrs == ReadInstructions(k)
      IN  /\ Len(instrs) = Len(pages[k])
          /\ \A j \in 0..(Len(pages[k]) - 1) :
               IsShowText(instrs[j + 1], geometry.fontSize, geometry.margin,
                          geometry.pageHeight - geometry.margin - j * geometry.lineHeight,
                          encode(pages[k][j + 1]))

\* a second page of two lines or more has been emitted: its second line stands one
\* line height below its first, which stands where the first line of page 1 does
C23_Witness ==
  /\ Returned
  /\ Len(pages) >= 2
  /\ Len(pages[2]) >= 2
  /\ Len(ReadInstructions(2)) = Len(pages[2])
  /\ pages[2][1] # pages[2][2]


----------------------------------------------------------------------------
(* escapePdfText on its own: buildPdf over one line of reserved characters, *)
(* too short to be wrapped.                                                 *)

\* longest line of reserved characters handed to buildPdf
MaxEscapeLen == 4

EscapeAlphabet == {"\\", "(", ")", "a"}

InitEscape ==
  /\ lines \in {<<text>> : text \in StringsUpTo(EscapeAlphabet, MaxEscapeLen)}
  /\ geometry = ShippedGeometry
  /\ InitLocals
  /\ InitOther

NextEscape == Wrap \/ PaginateStep \/ PaginateEnd \/ BuildObjects \/ OffsetStep \/ Emit

SpecEscape == InitEscape /\ [][NextEscape]_vars

\* the reserved characters of a line
reserved(text) == {q \in 1..Len(text) : text[q] \in {"\\", "(", ")"}}

\* the text between the parentheses of the only instruction of page 1
ReadLiteral ==
  LET instr == ReadInstructions(1)[1]
  IN  SubSeq(instr, Len(<<"B", "T", " ", "/", "F", "1", " ", "1", "2", " ", "T", "f", " ", "7", "2", " ", "7", "2", "0", " ", "T", "d", " ", "(">>) + 1, Len(instr) - Len(<<")", " ", "T", "j", " ", "E", "T">>))

\* C24: in the escaped text every backslash and parenthesis of the line is preceded
\* by an escaping backslash and nothing else is added; no unescaped parenthesis
\* remains, so that the literal string of the instruction ends at the instruction's
\* own closing parenthesis; and un-escaping the escaped text gives the line back.
C24_EscapeRoundTrip ==
  Returned =>
    LET line  == lines[1]
        instr == ReadInstructions(1)[1]
        raw   == ReadLiteral
    IN  /\ Len(ReadInstructions(1)) = 1
        /\ Len(raw) = Len(line) + Cardinality(reserved(line))
        /\ raw = escapePdfText(line)
        /\ \A q \in 1..Len(raw) : raw[q] \in {"(", ")"} => escaped(raw, q)
        /\ \A q \in 1..Len(raw) :
             escaped(raw, q) => raw[q] \in {"\\", "(", ")"}
        /\ backslashRun(raw, Len(raw) + 1) % 2 = 0
        /\ unescape(raw) = line
        /\ startsWithAt(instr, 0, <<"B", "T", " ", "/", "F", "1", " ", "1", "2", " ", "T", "f", " ", "7", "2", " ", "7", "2", "0", " ", "T", "d", " ", "(">>)
        /\ startsWithAt(instr, Len(instr) - 7, <<")", " ", "T", "j", " ", "E", "T">>)
        /\ ReadOperands(instr) = <<line>>

\* a line that already holds an escaped parenthesis, \( , and ends with a backslash
\* has been written
C24_Witness ==
  /\ Returned
  /\ \E q \in 1..(Len(lines[1]) - 1) : lines[1][q] = "\\" /\ lines[1][q + 1] = "("
  /\ lines[1][Len(lines[1])] = "\\"
  /\ Len(ReadLiteral) = 2 * Len(lines[1])


----------------------------------------------------------------------------
(* Claims about the rows of buildReportCsvRows, checked under SpecReport. *)

\* the sections of buildReportCsvRows that hold a list: a header and its items
listSections ==
  {"highlights", "metrics", "keyPoints", "structuredPlan", "opportunities", "risks",
   "attribution", "actions"}

\* the list a list section is made from
itemsOf(name) ==
  CASE name = "highlights"     -> reportHighlights
    [] name = "metrics"        -> reportMetrics
    [] name = "keyPoints"      -> analysisKeyPoints
    [] name = "structuredPlan" -> analysisStructuredPlan
    [] name = "opportunities"  -> analysisOpportunities
    [] name = "risks"          -> analysisRisks
    [] name = "attribution"    -> analysisDataAttribution
    [] name = "actions"        -> aiActions

\* the row made from an item of a list section
itemRow(name, item) ==
  CASE name = "metrics"     -> <<item.label, item.value>>
    [] name = "attribution" -> <<item.source \o <<":", " ">> \o item.notes>>
    [] OTHER                -> <<item>>

\* C25: every list section is a header row of one cell followed by exactly one row
\* per item, in list order, and the sections are separated by a single blank row:
\* the rows never hold two blank rows in a row and neither start nor end with a
\* blank row.
C25_SingleBlankSeparators ==
  LET sections == rowSections
      rws      == buildReportCsvRows
  IN  /\ \A k \in 1..Len(sections) :
           sections[k].section \in listSections =>
             LET items == itemsOf(sections[k].section)
             IN  /\ Len(sections[k].rows[1]) = 1
                 /\ Len(sections[k].rows) = 1 + Len(items)
                 /\ \A j \in 1..Len(items) :
                      sections[k].rows[j + 1] = itemRow(sections[k].section, items[j])
      /\ rws[1] # <<>>
      /\ rws[Len(rws)] # <<>>
      /\ \A k \in 1..(Len(rws) - 1) : ~(rws[k] = <<>> /\ rws[k + 1] = <<>>)


----------------------------------------------------------------------------
(* Claims about the stream lengths and the placement of the lines, checked  *)
(* under Spec.                                                              *)

\* C26: every content stream object declares a /Length that is the number of bytes
\* of the stream data standing between "stream" and "endstream", the line break
\* after the one and before the other left out: the byte length of the content
\* of the page, not its count of characters.
C26_StreamLengthInBytes ==
  Returned =>
    \A i \in 0..(Len(pages) - 1) :
      LET at     == ReadOffset(4 + 2 * i)
          length == numberAfter(blob, <<"/", "L", "e", "n", "g", "t", "h", " ">>, at)
          data   == find(blob, <<"s", "t", "r", "e", "a", "m", "\n">>, at) + 7
      IN  /\ startsWithAt(blob, at, toString(4 + 2 * i) \o <<" ", "0", " ", "o", "b", "j", "\n", "<", "<", " ", "/", "L", "e", "n", "g", "t", "h", " ">>)
          /\ find(blob, <<"\n", "e", "n", "d", "s", "t", "r", "e", "a", "m", "\n", "e", "n", "d", "o", "b", "j", "\n">>, at) = data + length
          /\ length = Len(encode(content(pages[i + 1], geometry)))
          /\ SubSeq(blob, data + 1, data + length) = encode(content(pages[i + 1], geometry))

\* a document has been emitted whose first page holds one empty line and whose
\* second page holds a character of more than one byte
C26_Witness ==
  /\ Returned
  /\ Len(pages) >= 2
  /\ pages[1] = << <<>> >>
  /\ \E j \in 1..Len(pages[2]) : \E k \in 1..Len(pages[2][j]) : Len(utf8(pages[2][j][k])) > 1
  /\ numberAfter(blob, <<"/", "L", "e", "n", "g", "t", "h", " ">>, ReadOffset(6)) > Len(content(pages[2], geometry))


----------------------------------------------------------------------------
(* buildPdf as shipped: the geometry of lines 527-531 and as many lines as  *)
(* it takes to fill a page.  The pagination loop is part of one            *)
(* synchronous call, which runs on once it has started: its iterations and  *)
(* its exit are weakly fair.                                                *)

\* longest ReportLine sequence handed to buildPdf with the shipped geometry
MaxShippedLines == 41

InitShipped ==
  /\ lines \in {[k \in 1..n |-> <<"a">>] : n \in 0..MaxShippedLines}
  /\ geometry = ShippedGeometry
  /\ InitLocals
  /\ InitOther

NextShipped == Wrap \/ PaginateStep \/ PaginateEnd \/ BuildObjects \/ OffsetStep \/ Emit

SpecShipped ==
  InitShipped /\ [][NextShipped]_vars /\ WF_vars(PaginateStep) /\ WF_vars(PaginateEnd)

\* the vertical positions of the instructions of the page with 1-based index k
ReadPositions(k) ==
  LET instrs == ReadInstructions(k)
  IN  [j \in 1..Len(instrs) |->
         parseNat(instrs[j], digitsEnd(instrs[j], digitsEnd(instrs[j], 7) + 4) + 1)]

\* every line of every page stands between the bottom and the top margin
WithinMargins ==
  Returned =>
    \A k \in 1..Len(pages) :
      LET ys == ReadPositions(k)
      IN  /\ Len(ys) = Len(pages[k])
          /\ Len(ys) <= 40
          /\ \A j \in 1..Len(ys) :
               /\ geometry.margin <= ys[j]
               /\ ys[j] <= geometry.pageHeight - geometry.margin

\* C27: with the shipped geometry (page height 792, margin 72, line height 16, font
\* size 12, wrap width 90) maxLinesPerPage is 40, the pagination loop comes to its
\* end for every line sequence, and every line of every page is placed at a
\* vertical position y with margin <= y <= pageHeight - margin.
C27_ShippedGeometry ==
  /\ [](/\ geometry = [lineHeight |-> 16, fontSize |-> 12, margin |-> 72, pageHeight |-> 792,
                       maxLineLength |-> 90]
        /\ maxLinesPerPage(geometry) = 40)
  /\ [](pc = "paginate" => <>Paginated)
  /\ []WithinMargins

\* 41 lines have been laid out: the first page holds 40, the last of them at the
\* position 96, and the second page starts again at 720
C27_Witness ==
  /\ Returned
  /\ Len(pages) = 2
  /\ Len(pages[1]) = 40
  /\ ReadPositions(1)[40] = 96
  /\ ReadPositions(2)[1] = 720


----------------------------------------------------------------------------
(* Claims about the chart points of the two flatteners, checked under       *)
(* SpecReport.                                                              *)

\* the chart points of buildReportLines: the lines pushed after the chart title
chartLines ==
  LET sections == lineSections
      at       == named(sections, "chartRows")
  IN  IF at = {} THEN <<>> ELSE sections[CHOOSE k \in at : TRUE].lines

\* the chart points of buildReportCsvRows: the rows pushed after ["Label", "Value"]
chartRows ==
  LET sections == rowSections
      at       == named(sections, "chartRows")
  IN  IF at = {} THEN <<>> ELSE Tail(sections[CHOOSE k \in at : TRUE].rows)

\* C28: both flatteners emit exactly one chart point per chart label, in label
\* order, pairing label i with value i; a label without a value is paired with
\* 0, a value beyond the last label is not emitted, and the two outputs agree on
\* the number, the order and the values of the points.
C28_ChartPointsPaired ==
  LET labels == chartData.labels
      values == chartData.values
      value(i) == IF i <= Len(values) THEN toString(values[i]) ELSE <<"0">>
      lns    == chartLines
      rws    == chartRows
  IN  /\ Len(lns) = Len(labels)
      /\ Len(rws) = Len(labels)
      /\ \A i \in 1..Len(labels) :
           /\ lns[i] = labels[i] \o <<":", " ">> \o value(i)
           /\ rws[i] = <<labels[i], value(i)>>
           /\ lns[i] = rws[i][1] \o <<":", " ">> \o rws[i][2]

\* the delimited export is under way for a chart of three labels and one value:
\* its rows hold the points x 1, y 0 and z 0
C28_Witness ==
  /\ pc = "toCsv"
  /\ Len(chartData.labels) = 3
  /\ Len(chartData.values) = 1
  /\ \E k \in 1..(Len(rows) - 2) :
       /\ rows[k] = <<<<"x">>, <<"1">>>>
       /\ rows[k + 1] = <<<<"y">>, <<"0">>>>
       /\ rows[k + 2] = <<<<"z">>, <<"0">>>>


----------------------------------------------------------------------------
(* sendPrompt on its own: the handlers that send a prompt and the three     *)
(* ways a pending call ends.  A call that awaits the scraper and the        *)
(* provider is resumed once their promises settle, whatever they settle     *)
(* to: the end of a pending call is weakly fair.                            *)

NextSend ==
  \/ SetApiKey \/ SetInput \/ handleSend \/ handleStartWithPrompt
  \/ sendPromptPayload \/ sendPromptReply \/ sendPromptFailure

SpecSend ==
  /\ InitReport
  /\ [][NextSend]_vars
  /\ WF_vars(sendPromptFailure \/ sendPromptReply \/ sendPromptPayload)

\* the last message is an answer
answered == Len(messages) > 0 /\ messages[Len(messages)].role = "assistant"

\* a step that changes the messages is the start of a call without a key, which
\* appends the prompt and the answer; the start of a call with a key, which appends
\* the prompt and sets isSending; or the end of a call, which appends the answer
\* and clears isSending.  No other step changes isSending.
SendStep ==
  IF messages' = messages
  THEN isSending' = isSending
  ELSE \/ /\ apiKey = <<>>
          /\ Len(messages') = Len(messages) + 2
          /\ SubSeq(messages', 1, Len(messages)) = messages
          /\ messages'[Len(messages) + 1].role = "user"
          /\ messages'[Len(messages) + 2].role = "assistant"
          /\ ~isSending /\ ~isSending'
       \/ /\ apiKey # <<>>
          /\ Len(messages') = Len(messages) + 1
          /\ SubSeq(messages', 1, Len(messages)) = messages
          /\ messages'[Len(messages) + 1].role = "user"
          /\ ~isSending /\ isSending'
       \/ /\ Len(messages') = Len(messages) + 1
          /\ SubSeq(messages', 1, Len(messages)) = messages
          /\ messages'[Len(messages) + 1].role = "assistant"
          /\ isSending /\ ~isSending'

\* prompts and answers alternate, a prompt is never blank, and isSending is set
\* exactly while the last prompt has no answer
Alternation ==
  /\ \A k \in 1..Len(messages) :
       /\ messages[k].role = (IF k % 2 = 1 THEN "user" ELSE "assistant")
       /\ (k % 2 = 1 => trim(messages[k].content) # <<>>)
  /\ isSending <=> (Len(messages) % 2 = 1)
  /\ isSending <=> (pending # <<>>)

\* C29: every call of sendPrompt with a prompt that is not blank appends exactly
\* one user message and then, on each of its paths, eventually exactly one
\* assistant message after it, and ends with isSending = FALSE; a call with a
\* blank prompt appends nothing.
C29_OneAnswerPerPrompt ==
  /\ [][SendStep]_vars
  /\ []Alternation
  /\ [](isSending => <>(~isSending /\ answered))

\* a call with a key has ended with a payload: the prompt, then the answer of the
\* payload, and isSending cleared
C29_Witness ==
  /\ Len(messages) = 2
  /\ messages[1].role = "user"
  /\ messages[2].role = "assistant"
  /\ messages[2].content = reportSummary
  /\ reportSummary # <<>>
  /\ apiKey # <<>>
  /\ ~isSending


----------------------------------------------------------------------------
(* handleCellChange on its own: the cell editor and the choice of the       *)
(* active sheet, started from the sheets the mount effect of lines 175-184  *)
(* restores.                                                                *)

\* the sheet sendPrompt stores for PartialPayload: a row of two cells and an empty row
storedSheet == newSheet(PartialPayload, 1)

\* the sheet lists found at mount: none stored (the seeds), or the list an earlier
\* session stored after a reply
StoredSheets == {seedSheets, <<storedSheet>> \o seedSheets}

\* the row and cell indexes tried, 0-based: 4 is past the last row of every sheet,
\* 5 past the last cell of every row
RowIndexes == {0, 1, 4}
CellIndexes == {1, 5}

\* the texts typed into a cell
CellValues == {<<>>, <<"v">>}

\* updatedRows replacing every cell of the addressed row
updatedRows_wholeRow(sheet, rowIndex, cellIndex, value) ==
  [r \in 1..Len(sheet.rows) |->
     IF r - 1 # rowIndex
     THEN sheet.rows[r]
     ELSE [c \in 1..Len(sheet.rows[r]) |-> value]]

\* const updatedRows (lines 223-230)
updatedRows(sheet, rowIndex, cellIndex, value) ==
  [r \in 1..Len(sheet.rows) |->
     IF r - 1 # rowIndex
     THEN sheet.rows[r]
     ELSE [c \in 1..Len(sheet.rows[r]) |->
             IF c - 1 = cellIndex THEN value ELSE sheet.rows[r][c]]]

\* handleCellChange(rowIndex, cellIndex, value)
handleCellChangeAt(rowIndex, cellIndex, value) ==
  /\ Idle
  /\ sheets' = [k \in 1..Len(sheets) |->
                  IF k - 1 # activeSheetIndex
                  THEN sheets[k]
                  ELSE [sheets[k] EXCEPT
                          !.rows = updatedRows(sheets[k], rowIndex, cellIndex, value),
                          !.lastUpdated = <<"J", "u", "s", "t", " ", "n", "o", "w">>]]
  /\ download' = NoDownload
  /\ UNCHANGED <<pc, pdfVars, rows, csv, thrown>>
  /\ UNCHANGED <<messages, input, apiKey, isSending, apiStatus, activeSheetId, reportSummary,
                 reportHighlights, reportMetrics, analysisLayer, aiActions, chartData,
                 scraperStatus, pending>>

\* onChangeText of a cell of the sheet editor
handleCellChange ==
  \E rowIndex \in RowIndexes, cellIndex \in CellIndexes, value \in CellValues :
    handleCellChangeAt(rowIndex, cellIndex, value)

\* onPress={() => setActiveSheetId(sheet.id)}
SelectSheet ==
  /\ Idle
  /\ \E k \in 1..Len(sheets) : activeSheetId' = sheets[k].id
  /\ download' = NoDownload
  /\ UNCHANGED <<pc, pdfVars, rows, csv, thrown>>
  /\ UNCHANGED <<messages, input, sheets, apiKey, isSending, apiStatus, reportSummary,
                 reportHighlights, reportMetrics, analysisLayer, aiActions, chartData,
                 scraperStatus, pending>>

\* the state after the mount effect has restored the stored sheets
InitCells ==
  /\ pc = "idle"
  /\ IdleLocals
  /\ rows = <<>>
  /\ csv = <<>>
  /\ download = NoDownload
  /\ sheets \in StoredSheets
  /\ activeSheetId = sheets[1].id
  /\ InitChat

NextCells == handleCellChange \/ SelectSheet

SpecCells == InitCells /\ [][NextCells]_vars

\* the cell at the 0-based indexes exists in the sheet
inRange(sheet, rowIndex, cellIndex) ==
  /\ rowIndex \in 0..(Len(sheet.rows) - 1)
  /\ cellIndex \in 0..(Len(sheet.rows[rowIndex + 1]) - 1)

\* what a call handleCellChange(rowIndex, cellIndex, value) leaves: the sheets in
\* their order, every sheet but the active one as it was, the active sheet with
\* its id and name, as many rows of the same lengths, lastUpdated "Just now",
\* the addressed cell holding value when it exists and every other cell as it was
CellFrame(rowIndex, cellIndex, value) ==
  LET a      == activeSheetIndex + 1
      before == sheets[a]
      after  == sheets'[a]
  IN  /\ Len(sheets') = Len(sheets)
      /\ \A k \in 1..Len(sheets) : k # a => sheets'[k] = sheets[k]
      /\ after.id = before.id
      /\ after.name = before.name
      /\ after.lastUpdated = <<"J", "u", "s", "t", " ", "n", "o", "w">>
      /\ Len(after.rows) = Len(before.rows)
      /\ \A r \in 1..Len(before.rows) :
           /\ Len(after.rows[r]) = Len(before.rows[r])
           /\ \A c \in 1..Len(before.rows[r]) :
                after.rows[r][c] = IF r - 1 = rowIndex /\ c - 1 = cellIndex
                                   THEN value
                                   ELSE before.rows[r][c]
      /\ (~inRange(before, rowIndex, cellIndex) => after.rows = before.rows)
      /\ activeSheetId' = activeSheetId

====
